---- MODULE Spec2Model ----
(***************************************************************************)
(* Model of the prefetch engine of SeqTools (seqtools/evaluation.py):      *)
(* the Prefetch scheduler, the thread, process and shared-memory backends  *)
(* with their workers, the worker monitor, and the error reporting of      *)
(* reraise_err / seterr (seqtools/errors.py).                              *)
(*                                                                         *)
(* The consumer is one thread.  Its __getitem__ blocks in wait_completion, *)
(* so it is cut into steps at every wait_completion call and between the   *)
(* refill submission (line 474) and the hand-over of the result (lines     *)
(* 478-483): workers run concurrently with it and observe these states.    *)
(***************************************************************************)
EXTENDS Integers, Sequences, FiniteSets, TLC

\* ------------------------------------------------------------------ bounds
SeqLen == 2         \* longest source sequence
MaxBuffered == 2    \* largest buffer_size handed to Prefetch
MaxWorkers == 2     \* largest number of workers
MaxCpu == 3         \* largest cpu_count, and largest |nworkers| <= 0
MaxCached == 3      \* largest max_cached of a BufferLoader
MaxCacheSize == 3   \* largest cache_size of a CachedSequence
MaxKeys == 4        \* length of the sequence under a CachedSequence
ViewLen == 2        \* length of the sequence under a cached view with threads
ViewCache == 2      \* largest cache_size of that view
MaxThreads == 2     \* threads that use the cached view
MaxEdge == 3        \* slice bounds run from -MaxEdge to MaxEdge
MaxStep == 2        \* slice steps run from -MaxStep to MaxStep
MaxLen == 3         \* longest sequence handed to a view
MaxSeqs == 3        \* most sequences handed to smap or interleave
MaxBatch == 3       \* largest batch size
MaxProcs == 3       \* processes that share a SharedCtypeQueue
MaxSize == 2        \* largest maxsize of a SharedCtypeQueue
MaxItems == 4       \* items put into a SharedCtypeQueue
MaxParallel == 2    \* largest n_parallel of uniter

VARIABLES
    method,        \* "thread" | "process" | "sharedmem"        (prefetch, 539-547)
    size,          \* Prefetch.size = len(seq)
    buffer_size,   \* the buffer_size given to Prefetch.__init__
    failing,       \* indices i of the source whose seq[i] raises
    picklable_err, \* whether the errors raised by the source can be pickled
    unsendable,    \* the items whose value a worker cannot pickle or pack
    infinite,      \* the source is an infinite view (repeat(v) without count)
    pipe_cap,      \* how many unread results fit in the result pipe of a worker
    cleanup,       \* where the backend's cleanup is: "none" | "join" | "done"
    joining,       \* position of cleanup's join loop in self.workers
    rx_open,       \* some process holds the read ends of the result pipes
    nworkers,      \* the nworkers argument of prefetch
    cpu_count,     \* multiprocessing.cpu_count()
    started,       \* number of workers prefetch started (-1: not called yet)
    start_hook,    \* whether prefetch was given a start_hook
    hooks,         \* per worker: how many times it has run the start hook
    wmode,         \* per worker: error_config.passthrough of its thread
    max_cached,    \* BufferLoader: number of buffer slots
    n_workers,     \* BufferLoader.n_workers
    bl_job_queue,  \* BufferLoader.job_queue (slots to fill)
    bl_done_queue, \* BufferLoader.done_queue: (slot, status) pairs
    bl_workers,    \* BufferLoader.workers, by pid: "off"|"idle"|"busy"|"asleep"|"stopped"
    bl_slot,       \* per BufferLoader worker: the slot of its job (-1: none)
    next_in_queue, \* BufferLoader.next_in_queue
    bl_pc,         \* the consumer: "out" of __next__, or "waiting" inside it
    held,          \* the slot the last __next__ returned, -1 once next is called
    clobbered,     \* history: a worker wrote the slot the consumer holds
    woke,          \* history: the running __next__ has restarted a worker
    cache_size,    \* CachedSequence.cache_size
    cache,         \* CachedSequence.cache: its keys, in the OrderedDict's order
    recency,       \* history: the keys accessed, least recently accessed first
    evicted,       \* history: the key the last miss evicted (-1: none)
    lru,           \* history: the least recently accessed cached key then
    source,        \* the sequence under the cached view: its elements
    cvalue,        \* CachedSequence.cache: the value stored under each key
    lock,          \* CachedSequence.lock: the thread that holds it, 0 if free
    tpc,           \* per thread: where it is in __getitem__ / __setitem__
    tkey,          \* per thread: the key handed to the decorated method
    tval,          \* per thread: the value it sets
    texp,          \* per thread: the key list indexing gives its request
    ret,           \* per thread: the value its get is about to return
    lens,          \* the lengths of the sequences handed to a view
    args,          \* the other arguments of the view, the slices taken
    view,          \* the fields of the view object
    out,           \* what len, iteration and indexing of the view gave
    stage,         \* "args": nothing built yet, then what was done last
    q_maxsize,     \* SharedCtypeQueue.maxsize
    q_values,      \* SharedCtypeQueue.values, one item per slot
    q_start,       \* SharedCtypeQueue.start.value
    q_stop,        \* SharedCtypeQueue.stop.value
    startlock,     \* SharedCtypeQueue.startlock: its holder, 0 if free
    stoplock,      \* SharedCtypeQueue.stoplock: its holder, 0 if free
    getsem,        \* SharedCtypeQueue.getsem: its counter
    putsem,        \* SharedCtypeQueue.putsem: its counter
    qpc,           \* per process: where it is in put / get
    qlocal,        \* per process: the item it puts, or the one it has read
    put_log,       \* history: the items put, in the order the puts took effect
    get_log,       \* history: the items read, in the order of the reads
    made,          \* history: how many items were handed to put
    buffer_queue,  \* BufferRecycler.buffer_queue: the free slots (FIFO)
    result_buffers,\* SHMProcessBacked.result_buffers: item -> buffer of a slot
    handles,       \* per slot: the values over it that the consumer holds
    tosubmit,      \* the items the loop at lines 466-467 has yet to submit
    job_queue,     \* backend.job_queue (FIFO)
    wstate,        \* per worker: "off" | "starting" | "idle" | "busy" | "dead"
                   \* (killed) | "exited" (returned)
    wjob,          \* per worker: the job it holds
    done_queue,    \* ThreadBackend.done_queue (FIFO)
    pipes,         \* per worker: its result pipe (process backends)
    worker_died,   \* the worker_died event (process backends)
    jobs,          \* Prefetch.jobs
    completed,     \* Prefetch.completed, as the set of its entries
    pc,            \* where the consumer is inside __getitem__ ("dead": the
                   \* parent process was killed)
    item,          \* the argument of the running __getitem__
    drainLeft,     \* iterations left of the drain loop (line 460)
    passthrough,   \* error_config.passthrough of the consumer thread
    last,          \* outcome of the last finished __getitem__
    access,        \* "random": gets of valid indices; "iter": __iter__ is
                   \* running; "any": gets of any integer; "dropped"
    yielded,       \* what __iter__ has yielded so far
    reported,      \* indices for which a get has raised an evaluation error
    submits,       \* history: the submit_job calls of a scripted run
    wasted         \* history: the results the running get has discarded

vars == <<method, size, buffer_size, failing, picklable_err, unsendable,
          infinite, pipe_cap,
          cleanup, joining, rx_open, nworkers, cpu_count, started,
          start_hook, hooks, wmode, max_cached, n_workers, bl_job_queue,
          bl_done_queue, bl_workers, bl_slot, next_in_queue, bl_pc, held,
          clobbered, woke, cache_size, cache, recency, evicted, lru,
          source, cvalue, lock, tpc, tkey, tval, texp, ret,
          lens, args, view, out, stage,
          q_maxsize, q_values, q_start, q_stop, startlock, stoplock, getsem,
          putsem, qpc, qlocal, put_log, get_log, made,
          buffer_queue, result_buffers, handles, tosubmit,
          job_queue, wstate, wjob,
          done_queue, pipes, worker_died, jobs, completed, pc, item,
          drainLeft, passthrough, last, access, yielded, reported, submits,
          wasted>>

backendVars == <<job_queue, wstate, wjob, done_queue, pipes, worker_died>>
\* The arguments of prefetch and the source
configVars == <<method, size, buffer_size, failing, picklable_err, unsendable,
                infinite, pipe_cap>>
\* The cleanup hook of the backend (weakref.finalize)
cleanupVars == <<cleanup, joining>>
\* What no step of a worker and no step of __getitem__ changes
\* The worker count asked of prefetch and the one it started
countVars == <<nworkers, cpu_count, started>>
\* The start hook and its runs
hookVars == <<start_hook, hooks, wmode>>
\* The state of a BufferLoader (buffering.py)
loaderVars == <<max_cached, n_workers, bl_job_queue, bl_done_queue, bl_workers,
                bl_slot, next_in_queue, bl_pc, held, clobbered, woke>>
\* The components beside the prefetcher
\* The state of a CachedSequence (buffering.py)
cacheVars == <<cache_size, cache, recency, evicted, lru>>
\* The source, the cached values and the threads of a cached view
viewVars == <<source, cvalue, lock, tpc, tkey, tval, texp, ret>>
\* The components that are modelled on their own
\* A view over sequences, and what was read from it
seqVars == <<lens, args, view, out, stage>>
\* A SharedCtypeQueue and the processes that use it
queueVars == <<q_maxsize, q_values, q_start, q_stop, startlock, stoplock,
               getsem, putsem, qpc, qlocal, put_log, get_log, made>>
\* The slots of the shared-memory backend
shmVars == <<buffer_queue, result_buffers, handles, tosubmit>>
moreVars == <<viewVars, seqVars, queueVars, shmVars>>
otherVars == <<loaderVars, cacheVars, moreVars>>
\* What the scheduler's submissions leave alone
fixedVars == <<configVars, cleanupVars, rx_open, countVars, hookVars,
               otherVars>>
setupVars == <<fixedVars, submits, wasted>>

Workers == 1..MaxWorkers
\* The pids BufferLoader gives its workers (range(nworkers), line 103)
Pids == 0..(MaxWorkers - 1)
Methods == {"thread", "process", "sharedmem"}

\* ------------------------------------------------------------ the source
\* The value of element i of the source sequence (distinct from its index).
Val(i) == 10 + i

\* seq[idx] in a worker: a value, or the exception it raises.  An index past
\* the end raises IndexError, which pickles.  An infinite repetition gives
\* its value at every index (InfiniteRepetition.__getitem__).
Evaluate(idx) ==
    IF infinite
        THEN [success |-> TRUE, value |-> Val(0), picklable |-> TRUE]
    ELSE IF idx >= size
        THEN [success |-> FALSE, value |-> 0, picklable |-> TRUE]
    ELSE IF idx \in failing
        THEN [success |-> FALSE, value |-> 0, picklable |-> picklable_err]
    ELSE [success |-> TRUE, value |-> Val(idx),
          picklable |-> idx \notin unsendable]

\* ------------------------------------------------------------- transport
\* What a worker sends for a job: (idx, success, value).  For a failure the
\* third component is an error, kept apart in the field error: "exc" (the
\* exception raised by the source, itself), "ValueError" (the exception the
\* worker makes of a value it cannot send), "str_cause" (the string form of
\* the exception raised by the source) or "str_senderr" (the string form of
\* the exception raised by the failed send).
Completion(idx, success, value, error) ==
    [idx |-> idx, success |-> success, value |-> value, error |-> error,
     stale |-> FALSE]

\* ThreadBackend.worker, lines 402-412
ThreadSend(idx) ==
    LET r == Evaluate(idx)
    IN  Completion(idx, r.success, r.value, IF r.success THEN "none" ELSE "exc")

\* ProcessBackend.worker, lines 120-147: result_pipe.send pickles; when that
\* fails for an error, value = str(e) where e is the exception of the send.
ProcessSend(idx) ==
    LET r == Evaluate(idx)
    IN  IF r.picklable
            THEN Completion(idx, r.success, r.value,
                            IF r.success THEN "none" ELSE "exc")
        ELSE IF r.success
            THEN Completion(idx, FALSE, 0, "ValueError")
        ELSE Completion(idx, FALSE, 0, "str_senderr")

\* SHMProcessBacked.worker, lines 309-341: an error that pkl.dumps rejects
\* is replaced by pkl.dumps(str(payload)), payload being the error raised.
SHMSend(idx) ==
    LET r == Evaluate(idx)
    IN  IF r.picklable
            THEN Completion(idx, r.success, r.value,
                            IF r.success THEN "none" ELSE "exc")
        ELSE IF r.success
            THEN Completion(idx, FALSE, 0, "ValueError")
        ELSE Completion(idx, FALSE, 0, "str_cause")

Send(idx) ==
    IF method = "thread" THEN ThreadSend(idx)
    ELSE IF method = "process" THEN ProcessSend(idx)
    ELSE SHMSend(idx)

\* ----------------------------------------------------------------- jobs
\* A queued job.  stale is history: it is set on everything still in the
\* backend when the scheduler reschedules after a non-monotonic request.
Job(i) == [idx |-> i, stale |-> FALSE]

\* submit_job(i) for i = from, from+1, ..., from+n-1, in this order
RECURSIVE Range(_, _)
Range(from, n) == IF n <= 0 THEN <<>> ELSE <<from>> \o Range(from + 1, n - 1)

\* What an idle worker holds
NoJob == [idx |-> -1, stale |-> FALSE]

Submitted(seq) == [k \in 1..Len(seq) |-> Job(seq[k])]

MarkStale(q) == [k \in 1..Len(q) |-> [q[k] EXCEPT !.stale = TRUE]]

NoResult == [item |-> -1, outcome |-> "none", value |-> 0, cause |-> "none",
             text |-> "none", mode |-> FALSE, stale |-> FALSE, jump |-> FALSE]

\* The smallest max_buffered handed to prefetch that gives Prefetch this
\* buffer_size: prefetch halves it for the shared-memory backend (line 548).
max_buffered == IF method = "sharedmem" THEN 2 * buffer_size ELSE buffer_size

\* A result pipe is an OS pipe: send blocks while the unread results fill
\* it.  Either one result fills it (large items) or every result that can be
\* outstanding fits.  The shared-memory backend sends 24-byte headers, the
\* thread backend uses an unbounded queue.
PipeCaps ==
    IF method = "process" THEN {1, MaxBuffered + 1} ELSE {MaxBuffered + 1}

\* No BufferLoader is built.
NoLoader ==
    /\ max_cached = 0
    /\ n_workers = 0
    /\ bl_job_queue = <<>>
    /\ bl_done_queue = <<>>
    /\ bl_workers = [p \in Pids |-> "off"]
    /\ bl_slot = [p \in Pids |-> -1]
    /\ next_in_queue = -1
    /\ bl_pc = "none"
    /\ held = -1
    /\ clobbered = FALSE
    /\ woke = FALSE

\* No CachedSequence is built.
NoCache ==
    /\ cache_size = 0
    /\ cache = <<>>
    /\ recency = <<>>
    /\ evicted = -1
    /\ lru = -1

Threads == 1..MaxThreads

\* No cached view is shared by threads.
NoView ==
    /\ source = <<>>
    /\ cvalue = <<>>
    /\ lock = 0
    /\ tpc = [t \in Threads |-> "off"]
    /\ tkey = [t \in Threads |-> -1]
    /\ tval = [t \in Threads |-> -1]
    /\ texp = [t \in Threads |-> -1]
    /\ ret = [t \in Threads |-> -1]

\* No view is built over sequences.
NoSeq ==
    /\ lens = <<>>
    /\ args = <<>>
    /\ view = <<>>
    /\ out = <<>>
    /\ stage = "none"

Procs == 1..MaxProcs

\* No SharedCtypeQueue is built.
NoQueue ==
    /\ q_maxsize = 0
    /\ q_values = <<>>
    /\ q_start = 0
    /\ q_stop = 0
    /\ startlock = 0
    /\ stoplock = 0
    /\ getsem = 0
    /\ putsem = 0
    /\ qpc = [p \in Procs |-> "off"]
    /\ qlocal = [p \in Procs |-> 0]
    /\ put_log = <<>>
    /\ get_log = <<>>
    /\ made = 0

\* The slots of the shared-memory arena (buffer_size of the backend is
\* max_buffered, line 547)
Slots == 0..(2 * MaxBuffered - 1)

\* The buffers of the shared-memory backend are not followed.
NoShm ==
    /\ buffer_queue = <<>>
    /\ result_buffers = {}
    /\ handles = [s \in Slots |-> 0]
    /\ tosubmit = <<>>

\* None of the components modelled on their own is in use.
NoMore == NoView /\ NoSeq /\ NoQueue /\ NoShm

\* The prefetcher is the only component in use.
NoOther == NoLoader /\ NoCache /\ NoMore

\* len(seq), the size given to Prefetch (line 552): InfiniteRepetition's
\* __len__ returns 0.
Sizes == IF infinite THEN {0} ELSE 1..SeqLen

\* ----------------------------------------------------------------- Init
\* Prefetch.__init__ (438-448) after the backend started its workers.  The
\* shared-memory backend evaluates seq[0] in its constructor (line 212), so
\* it is built only over a source whose first element evaluates, and it has
\* at least one buffer per worker (line 209).  Its buffers are taken to
\* suffice: the consumer releases what it was handed, as prefetch documents.
Source ==
    /\ method \in Methods
    /\ buffer_size \in 1..MaxBuffered
    /\ size \in Sizes
    /\ failing \in {F \in SUBSET (0..(size - 1)) :
                       method = "sharedmem" => 0 \notin F}
    /\ picklable_err \in (IF failing = {} \/ method = "thread"
                              THEN {TRUE} ELSE BOOLEAN)

\* The backend with its workers, and the scheduler after its constructor
Constructed(first) ==
    /\ \E n \in 1..MaxWorkers :
          /\ method = "sharedmem" => n <= 2 * buffer_size + 1
          /\ wstate = [w \in Workers |-> IF w <= n THEN first ELSE "off"]
          /\ wmode = [w \in Workers |-> w <= n /\ first = "idle"]
          /\ nworkers = n
          /\ started = n
    /\ cpu_count = 1
    /\ pipe_cap \in PipeCaps
    /\ cleanup = "none"
    /\ joining = 0
    /\ rx_open = TRUE
    /\ wjob = [w \in Workers |-> NoJob]
    /\ jobs = Range(0, buffer_size)
    /\ job_queue = Submitted(Range(0, buffer_size))
    /\ done_queue = <<>>
    /\ pipes = [w \in Workers |-> <<>>]
    /\ worker_died = FALSE
    /\ completed = {}
    /\ pc = "idle"
    /\ item = 0
    /\ drainLeft = 0
    /\ passthrough = FALSE
    /\ last = NoResult
    /\ yielded = <<>>
    /\ reported = {}
    /\ hooks = [w \in Workers |-> 0]
    /\ NoOther

Built(first) ==
    /\ Source
    /\ unsendable = {}
    /\ Constructed(first)
    /\ submits = 0
    /\ wasted = 0

\* The workers are past their start and wait for jobs; no start hook.
Init ==
    /\ infinite = FALSE
    /\ Built("idle")
    /\ start_hook = FALSE
    /\ access \in {"random", "iter"}

\* The workers have been started and none has run yet (worker.start(),
\* lines 62, 232, 370); prefetch may have been given a start hook.
InitStart ==
    /\ infinite = FALSE
    /\ Built("starting")
    /\ start_hook \in BOOLEAN
    /\ access \in {"random", "iter"}

\* The caller passes any integer to __getitem__.
InitIndex ==
    /\ infinite = FALSE
    /\ Built("idle")
    /\ start_hook = FALSE
    /\ access = "any"

\* prefetch(repeat(v), ...): the source is an infinite view
InitInfinite ==
    /\ infinite = TRUE
    /\ Built("idle")
    /\ start_hook = FALSE
    /\ access \in {"random", "iter"}

\* The requests of a scripted run, in their order
Script == <<0, 50, 50, 7, 7, 7, 200>>

\* A prefetcher over a sequence of 300 items, every one of which evaluates;
\* the caller requests the items of Script.  submits counts the jobs handed
\* to the backend, those of the constructor (445-447) included.
InitScript ==
    /\ infinite = FALSE
    /\ method \in Methods
    /\ buffer_size \in 1..MaxBuffered
    /\ size = 300
    /\ failing = {}
    /\ picklable_err = TRUE
    /\ unsendable = {}
    /\ Constructed("idle")
    /\ submits = buffer_size
    /\ wasted = 0
    /\ start_hook = FALSE
    /\ access = "script"

\* Some values of the source cannot be sent by a worker process: they do
\* not pickle (process backend) or do not pack into a slot sized after
\* seq[0] (shared-memory backend, lines 212-213, 320).  The results fit
\* in the pipes.
InitSend ==
    /\ infinite = FALSE
    /\ Source
    /\ unsendable \in {U \in SUBSET (0..(size - 1)) :
                          /\ (method = "thread") = (U = {})
                          /\ method = "sharedmem" => 0 \notin U}
    /\ Constructed("idle")
    /\ pipe_cap = MaxBuffered + 1
    /\ submits = 0
    /\ wasted = 0
    /\ start_hook = FALSE
    /\ access = "random"

\* ----------------------------------------------------------- error mode
\* seterr(evaluation), lines 14-31 of errors.py: the value it stores in
\* error_config.passthrough.  It returns nothing.
seterr(evaluation) == (evaluation = "passthrough")
seterr_returns == "None"

\* error_config.passthrough as each thread sees it: thread 0 is the
\* consumer, the others are the workers.
Modes == [t \in 0..MaxWorkers |-> IF t = 0 THEN passthrough ELSE wmode[t]]

\* Mutant of error_config: one setting that all threads share
shared_config(modes, t, v) == [x \in DOMAIN modes |-> v]

\* ErrorConfig(threading.local), errors.py 38-43: thread t assigns v to
\* error_config.passthrough
error_config(modes, t, v) == [modes EXCEPT ![t] = v]

\* Thread t runs `error_config.passthrough = v` (errors.py 27, 29)
Assigned(t, v) ==
    LET m == error_config(Modes, t, v)
    IN  /\ passthrough' = m[0]
        /\ wmode' = [w \in Workers |-> m[w]]

\* -------------------------------------------------------------- workers
\* The head of a worker, before its loop (95-103, 285-293, 389-393): it
\* runs init_fn when one was given, then sets its error mode.
RunHook(w) ==
    /\ wstate[w] = "starting"
    /\ wstate' = [wstate EXCEPT ![w] = "idle"]
    /\ hooks' = [hooks EXCEPT ![w] = IF start_hook THEN @ + 1 ELSE @]
    /\ Assigned(w, seterr("passthrough"))
    /\ UNCHANGED <<job_queue, wjob, done_queue, pipes, worker_died>>
    /\ UNCHANGED <<configVars, cleanupVars, rx_open, countVars, start_hook,
                   otherVars, submits, wasted, jobs, completed, pc, item, drainLeft,
                   last, access, yielded, reported>>

\* Mutant of TakeJob: a worker takes jobs before it has run its head
TakeJobEarly(w) ==
    /\ wstate[w] \in {"idle", "starting"}
    /\ job_queue # <<>>
    /\ job_queue' = Tail(job_queue)
    /\ IF Head(job_queue).idx < 0
          THEN /\ wstate' = [wstate EXCEPT ![w] = "exited"]
               /\ UNCHANGED wjob
          ELSE /\ wstate' = [wstate EXCEPT ![w] = "busy"]
               /\ wjob' = [wjob EXCEPT ![w] = Head(job_queue)]
    /\ UNCHANGED <<done_queue, pipes, worker_died>>
    /\ UNCHANGED <<setupVars, jobs, completed, pc, item, drainLeft,
                   passthrough, last, access, yielded, reported>>

\* Code that a worker runs for seq[idx] calls seterr (a nested smap does
\* when an item fails, mapping.py 40).
WorkerSetErr(w, evaluation) ==
    /\ wstate[w] = "busy"
    /\ Assigned(w, seterr(evaluation))
    /\ UNCHANGED <<configVars, cleanupVars, rx_open, countVars, start_hook,
                   hooks, otherVars, submits, wasted, backendVars, jobs, completed,
                   pc, item, drainLeft, last, access, yielded, reported>>

\* job_queue.get() and the sentinel test (ThreadBackend.worker 397-400,
\* ProcessBackend.worker 107-118, SHMProcessBacked.worker 297-307)
TakeJob(w) ==
    /\ wstate[w] = "idle"
    /\ job_queue # <<>>
    /\ job_queue' = Tail(job_queue)
    /\ IF Head(job_queue).idx < 0
          THEN /\ wstate' = [wstate EXCEPT ![w] = "exited"]
               /\ UNCHANGED wjob
          ELSE /\ wstate' = [wstate EXCEPT ![w] = "busy"]
               /\ wjob' = [wjob EXCEPT ![w] = Head(job_queue)]
    /\ UNCHANGED <<done_queue, pipes, worker_died>>
    /\ UNCHANGED <<setupVars, jobs, completed, pc, item, drainLeft,
                   passthrough, last, access, yielded, reported>>

\* Mutant of send: the completion is written twice
send_twice(q, c) == Append(Append(q, c), c)

\* result_pipe.send((idx, success, value)) / done_queue.put(...): of the
\* two sends of a worker (131-147, 319-341) the first one that succeeds
\* writes the completion, and a send that raises writes nothing.
send(q, c) == Append(q, c)

\* The completion a worker posts for the job it holds
Posted(w) == [Send(wjob[w].idx) EXCEPT !.stale = wjob[w].stale]

\* seq[idx] and the notification of the parent (ThreadBackend.worker
\* 402-412, ProcessBackend.worker 120-147, SHMProcessBacked.worker 309-341).
\* result_pipe.send returns once the result is in the pipe.
Finish(w) ==
    /\ wstate[w] = "busy"
    /\ rx_open
    /\ Len(pipes[w]) < pipe_cap
    /\ wstate' = [wstate EXCEPT ![w] = "idle"]
    /\ wjob' = [wjob EXCEPT ![w] = NoJob]
    /\ IF method = "thread"
          THEN /\ done_queue' = send(done_queue, Posted(w))
               /\ UNCHANGED pipes
          ELSE /\ pipes' = [pipes EXCEPT ![w] = send(@, Posted(w))]
               /\ UNCHANGED done_queue
    /\ UNCHANGED <<job_queue, worker_died>>
    /\ UNCHANGED <<setupVars, jobs, completed, pc, item, drainLeft,
                   passthrough, last, access, yielded, reported>>

Gone(w) == wstate[w] \in {"dead", "exited"}

\* A worker process is killed, idle or holding a job (test_worker_crash).
Kill(w) ==
    /\ method # "thread"
    /\ wstate[w] \in {"idle", "busy"}
    /\ wstate' = [wstate EXCEPT ![w] = "dead"]
    /\ UNCHANGED <<job_queue, wjob, done_queue, pipes, worker_died>>
    /\ UNCHANGED <<setupVars, jobs, completed, pc, item, drainLeft,
                   passthrough, last, access, yielded, reported>>

\* ProcessBackend.monitor_workers, lines 149-157
monitor_workers ==
    /\ method # "thread"
    /\ ~worker_died
    /\ \E w \in Workers : Gone(w)
    /\ worker_died' = TRUE
    /\ UNCHANGED <<job_queue, wstate, wjob, done_queue, pipes>>
    /\ UNCHANGED <<setupVars, jobs, completed, pc, item, drainLeft,
                   passthrough, last, access, yielded, reported>>

\* ------------------------------------------------------ wait_completion
\* The pipes multiprocessing.connection.wait reports: those with data and
\* those whose writing end is closed (end of file).
Ready == {w \in Workers : pipes[w] # <<>> \/ (Gone(w) /\ pipes[w] = <<>>)}

\* The completions a wait_completion call can return now, each with the
\* worker it comes from (0: the done queue of the thread backend).
Returnable ==
    IF method = "thread"
        THEN (IF done_queue # <<>> THEN {<<0, Head(done_queue)>>} ELSE {})
        ELSE {<<w, Head(pipes[w])>> : w \in {v \in Workers : pipes[v] # <<>>}}

\* wait_completion returns r[2] (ThreadBackend 385-386, ProcessBackend
\* 82-87, SHMProcessBacked 260-282)
wait_completion(r) ==
    /\ r \in Returnable
    /\ IF method = "thread"
          THEN /\ done_queue' = Tail(done_queue)
               /\ UNCHANGED pipes
          ELSE /\ pipes' = [pipes EXCEPT ![r[1]] = Tail(@)]
               /\ UNCHANGED done_queue
    /\ UNCHANGED <<job_queue, wstate, wjob, worker_died>>

\* Mutant of wait_completion_raises: the end of file of a pipe is not
\* handled, only the flag of the monitor when no pipe is ready
raises_on_flag_only ==
    /\ method # "thread"
    /\ Ready = {}
    /\ worker_died
    /\ UNCHANGED <<job_queue, wstate, wjob, done_queue, pipes, worker_died>>

\* wait_completion raises RuntimeError("worker died unexpetedly"): p[0] is
\* a pipe at end of file, or no pipe is ready and the monitor has set
\* worker_died (ProcessBackend 88-92, SHMProcessBacked 268-275)
wait_completion_raises ==
    /\ method # "thread"
    /\ IF Ready # {}
          THEN /\ \E w \in Ready : pipes[w] = <<>>
               /\ worker_died' = TRUE
          ELSE /\ worker_died
               /\ UNCHANGED worker_died
    /\ UNCHANGED <<job_queue, wstate, wjob, done_queue, pipes>>

\* ---------------------------------------------------------------- errors
\* Mutant of reraise_err: an error that is not a string is raised as it is
reraise_unwrapped(error, mode) ==
    IF error \in {"str_cause", "str_senderr"}
        THEN [outcome |-> "EvaluationError", cause |-> "none", text |-> error,
              passthrough |-> mode]
    ELSE [outcome |-> "original", cause |-> error, text |-> "none",
          passthrough |-> seterr("wrap")]

\* reraise_err(item, error, stack_desc), lines 417-432: what it raises and
\* the mode it leaves.  `seterr()` stores the default 'wrap'.
reraise_err(error, mode) ==
    IF error \in {"str_cause", "str_senderr"}
        THEN [outcome |-> "EvaluationError", cause |-> "none", text |-> error,
              passthrough |-> mode]
    ELSE IF seterr_returns = "passthrough"
        THEN [outcome |-> "original", cause |-> error, text |-> "none",
              passthrough |-> seterr("wrap")]
    ELSE [outcome |-> "EvaluationError", cause |-> error, text |-> "none",
          passthrough |-> seterr("wrap")]

\* The user calls seterr between two gets.
SetErr(evaluation) ==
    /\ pc = "idle"
    /\ passthrough' = seterr(evaluation)
    /\ UNCHANGED <<setupVars, backendVars, jobs, completed, pc, item,
                   drainLeft, last, access, yielded, reported>>

\* ------------------------------------------------------------- Prefetch
Keys(c) == {e.idx : e \in c}
\* Mutant of Entry: pops the newest buffered result, not the requested one
EntryNewest(c, i) == CHOOSE e \in c : \A x \in c : x.idx <= e.idx

\* completed[item] / completed.pop(item)  (lines 470, 479)
Entry(c, i) == CHOOSE e \in c : e.idx = i

\* Mutant of Popped: a failed result stays buffered when it is raised
PoppedUnlessFailed(c, i) ==
    IF Entry(c, i).success THEN c \ {Entry(c, i)} ELSE c

\* completed.pop(item)  (line 479)
Popped(c, i) == c \ {Entry(c, i)}

\* completed[idx] = success, value  (line 472)
Store(c, e) == {x \in c : x.idx # e.idx} \cup {e}

\* The indices a caller may request: any index of the sequence, or the
\* next one of the running iteration (Prefetch.__iter__, 453-455), or any
\* integer, negative and past the end included.
Requests ==
    IF access = "random" /\ infinite THEN 0..(SeqLen - 1)
    ELSE IF access = "random" THEN 0..(size - 1)
    ELSE IF access = "any" THEN (-(size + 1))..size
    ELSE IF access = "iter" /\ Len(yielded) < size THEN {Len(yielded)}
    ELSE IF access = "script" /\ Len(yielded) < Len(Script)
        THEN {Script[Len(yielded) + 1]}
    ELSE {}

\* Mutant of DrainCount: the drain loop waits for one completion too many
DrainOneMore == Len(jobs) - Cardinality(Keys(completed)) + 1

\* Mutant of DrainCount: the drain loop stops one completion early
DrainOneShort == Len(jobs) - Cardinality(Keys(completed)) - 1

\* The number of wait_completion calls of the drain loop (line 460)
DrainCount == Len(jobs) - Cardinality(Keys(completed))

\* __getitem__, lines 457-460: entry and the test of the request
Get(i) ==
    /\ pc = "idle"
    /\ i \in Requests
    /\ item' = i
    /\ last' = [NoResult EXCEPT !.jump = (i # jobs[1])]
    /\ IF i # jobs[1]
          THEN /\ pc' = "drain"
               /\ drainLeft' = DrainCount
          ELSE /\ pc' = "wait"
               /\ UNCHANGED drainLeft
    /\ wasted' = 0
    /\ UNCHANGED <<fixedVars, submits, backendVars, jobs, completed,
                   passthrough, access, yielded, reported>>

\* lines 460-461: one wait_completion of the drain loop, result dropped
DrainStep ==
    /\ pc = "drain"
    /\ drainLeft > 0
    /\ \E r \in Returnable : wait_completion(r)
    /\ drainLeft' = drainLeft - 1
    /\ wasted' = wasted + 1
    /\ UNCHANGED <<fixedVars, submits, jobs, completed, pc, item, passthrough,
                   last, access, yielded, reported>>

\* wait_completion raised inside __getitem__: the exception leaves the
\* scheduler as it is and ends a running iteration.
Fatal ==
    /\ wait_completion_raises
    /\ pc' = "idle"
    /\ last' = [last EXCEPT !.item = item, !.outcome = "WorkerDied",
                            !.mode = passthrough]
    /\ access' = IF access = "iter" THEN "aborted" ELSE access
    /\ UNCHANGED <<setupVars, jobs, completed, item, drainLeft, passthrough,
                   yielded, reported>>

DrainRaise ==
    /\ pc = "drain"
    /\ drainLeft > 0
    /\ Fatal

\* Mutant of Rescheduled: one job more than the ring holds
RescheduledOneMore(i, n) == Range(i, n + 1)

\* list(range(item, item + len(self.jobs)))  (line 465)
Rescheduled(i, n) == Range(i, n)

\* lines 463-467: forget the buffered results and reschedule from item
Resubmit ==
    /\ pc = "drain"
    /\ drainLeft <= 0
    /\ completed' = {}
    /\ jobs' = Rescheduled(item, Len(jobs))
    /\ job_queue' = MarkStale(job_queue) \o Submitted(Rescheduled(item, Len(jobs)))
    /\ wjob' = [w \in Workers |-> [wjob[w] EXCEPT !.stale = (wstate[w] = "busy")]]
    /\ done_queue' = MarkStale(done_queue)
    /\ pipes' = [w \in Workers |-> MarkStale(pipes[w])]
    /\ pc' = "wait"
    /\ submits' = IF access = "script" THEN submits + Len(jobs) ELSE submits
    /\ wasted' = wasted + Cardinality(completed)
    /\ UNCHANGED <<wstate, worker_died>>
    /\ UNCHANGED <<fixedVars, item, drainLeft, passthrough, last, access,
                   yielded, reported>>

\* lines 470-472: one wait_completion of the retrieval loop, result kept
WaitStep ==
    /\ pc = "wait"
    /\ item \notin Keys(completed)
    /\ \E r \in Returnable :
          /\ wait_completion(r)
          /\ completed' = Store(completed, r[2])
    /\ UNCHANGED <<setupVars, jobs, pc, item, drainLeft, passthrough, last,
                   access, yielded, reported>>

WaitRaise ==
    /\ pc = "wait"
    /\ item \notin Keys(completed)
    /\ Fatal

\* lines 474-475: submit the job that follows the buffered ones
Refill ==
    /\ pc = "wait"
    /\ item \in Keys(completed)
    /\ job_queue' = Append(job_queue, Job(item + Len(jobs)))
    /\ jobs' = Append(jobs, item + Len(jobs))
    /\ pc' = "return"
    /\ submits' = IF access = "script" THEN submits + 1 ELSE submits
    /\ UNCHANGED wasted
    /\ UNCHANGED <<wstate, wjob, done_queue, pipes, worker_died>>
    /\ UNCHANGED <<fixedVars, completed, item, drainLeft, passthrough, last,
                   access, yielded, reported>>

\* lines 478-483: hand the result over, or raise it through reraise_err
Return ==
    /\ pc = "return"
    /\ jobs' = Tail(jobs)
    /\ completed' = Popped(completed, item)
    /\ pc' = "idle"
    /\ LET e == Entry(completed, item)
           err == reraise_err(e.error, passthrough)
       IN  IF e.success
              THEN /\ last' = [last EXCEPT !.item = item,
                                  !.outcome = "value", !.value = e.value,
                                  !.mode = passthrough, !.stale = e.stale]
                   /\ yielded' = IF access \in {"iter", "script"}
                                    THEN Append(yielded, e.value) ELSE yielded
                   /\ UNCHANGED <<passthrough, access, reported>>
              ELSE /\ last' = [last EXCEPT !.item = item,
                                  !.outcome = err.outcome, !.cause = err.cause,
                                  !.text = err.text, !.mode = passthrough,
                                  !.stale = e.stale]
                   /\ passthrough' = err.passthrough
                   /\ access' = IF access = "iter" THEN "aborted" ELSE access
                   /\ reported' = reported \cup {item}
                   /\ UNCHANGED yielded
    /\ UNCHANGED <<setupVars, backendVars, item, drainLeft>>

\* -------------------------------------------------------------- cleanup
\* self.workers: the workers the backend started
Started == {w \in Workers : wstate[w] # "off"}

\* `for _ in workers: job_queue.put(-1)`  (lines 161-162, 345-346, 375-376)
Sentinels(n) == [k \in 1..n |-> Job(-1)]

\* The prefetcher is dropped between two gets and the finalizer of its
\* backend runs cleanup (159-166, 343-350, 374-378): it posts the sentinels
\* behind the jobs still queued and enters the join loop.  Nothing reads
\* the results any more.
Drop ==
    /\ pc = "idle"
    /\ cleanup = "none"
    /\ access' = "dropped"
    /\ cleanup' = "join"
    /\ joining' = 1
    /\ job_queue' = job_queue \o Sentinels(Cardinality(Started))
    /\ UNCHANGED <<wstate, wjob, done_queue, pipes, worker_died>>
    /\ UNCHANGED <<configVars, rx_open, countVars, hookVars, otherVars, submits, wasted,
                   jobs, completed,
                   pc, item, drainLeft, passthrough, last, yielded, reported>>

\* `w.join()` returns for a worker that has exited; `if w.is_alive()` skips
\* one that is dead  (lines 163-165, 377-378)
Join ==
    /\ cleanup = "join"
    /\ joining \in Started
    /\ Gone(joining)
    /\ joining' = joining + 1
    /\ UNCHANGED <<cleanup, configVars, rx_open, countVars, hookVars, otherVars,
                   submits, wasted,
                   backendVars, jobs, completed, pc, item,
                   drainLeft, passthrough, last, access, yielded, reported>>

\* The join loop is over; monitor.join() (line 166) returns at once, the
\* monitor thread ends when it sees a worker that is not alive.
CleanupEnds ==
    /\ cleanup = "join"
    /\ joining \notin Started
    /\ cleanup' = "done"
    /\ UNCHANGED <<joining, configVars, rx_open, countVars, hookVars, otherVars,
                   submits, wasted,
                   backendVars, jobs, completed, pc, item,
                   drainLeft, passthrough, last, access, yielded, reported>>

\* --------------------------------------------------------- parent death
\* What of the job queue reaches the workers when the parent dies: the
\* jobs its feeder thread had written to the queue's pipe.
Prefixes(q) == {SubSeq(q, 1, k) : k \in 0..Len(q)}

\* The parent process is killed, inside a get or between two gets.  The
\* read end of a result pipe stays open when the workers were forked (each
\* worker inherits the read end of its own pipe, created before
\* worker.start(), lines 55-62); it is closed when they were spawned.
ParentDies ==
    /\ method # "thread"
    /\ pc \in {"idle", "drain", "wait", "return"}
    /\ cleanup = "none"
    /\ pc' = "dead"
    /\ rx_open' \in BOOLEAN
    /\ job_queue' \in Prefixes(job_queue)
    /\ UNCHANGED <<wstate, wjob, done_queue, pipes, worker_died>>
    /\ UNCHANGED <<configVars, cleanupVars, countVars, hookVars, otherVars,
                   submits, wasted, jobs,
                   completed, item, drainLeft, passthrough, last, access,
                   yielded, reported>>

\* job_queue.get times out and the worker finds another parent pid
\* (ProcessBackend.worker 111-114, SHMProcessBacked.worker 301-304)
OrphanExit(w) ==
    /\ pc = "dead"
    /\ wstate[w] = "idle"
    /\ job_queue = <<>>
    /\ wstate' = [wstate EXCEPT ![w] = "exited"]
    /\ UNCHANGED <<job_queue, wjob, done_queue, pipes, worker_died>>
    /\ UNCHANGED <<setupVars, jobs, completed, pc, item, drainLeft,
                   passthrough, last, access, yielded, reported>>

\* result_pipe.send raises BrokenPipeError, at line 131 and again at line
\* 144, and the worker returns (145-147, 338-341)
SendBroken(w) ==
    /\ wstate[w] = "busy"
    /\ ~rx_open
    /\ wstate' = [wstate EXCEPT ![w] = "exited"]
    /\ wjob' = [wjob EXCEPT ![w] = NoJob]
    /\ UNCHANGED <<job_queue, done_queue, pipes, worker_died>>
    /\ UNCHANGED <<setupVars, jobs, completed, pc, item, drainLeft,
                   passthrough, last, access, yielded, reported>>

\* --------------------------------------------------- number of workers
\* No prefetcher is built: the state of scheduler, backend and cleanup
NotBuilt ==
    /\ infinite = FALSE
    /\ size = 0
    /\ buffer_size = 0
    /\ failing = {}
    /\ picklable_err = TRUE
    /\ unsendable = {}
    /\ pipe_cap = 0
    /\ cleanup = "none"
    /\ joining = 0
    /\ rx_open = TRUE
    /\ job_queue = <<>>
    /\ wstate = [w \in Workers |-> "off"]
    /\ wjob = [w \in Workers |-> NoJob]
    /\ done_queue = <<>>
    /\ pipes = [w \in Workers |-> <<>>]
    /\ worker_died = FALSE
    /\ jobs = <<>>
    /\ completed = {}
    /\ pc = "none"
    /\ item = 0
    /\ drainLeft = 0
    /\ passthrough = FALSE
    /\ last = NoResult
    /\ access = "none"
    /\ yielded = <<>>
    /\ reported = {}
    /\ submits = 0
    /\ wasted = 0
    /\ start_hook = FALSE
    /\ hooks = [w \in Workers |-> 0]
    /\ wmode = [w \in Workers |-> FALSE]

\* The first lines of every backend constructor (45-48, 205-208, 356-359):
\* the number of workers it starts, 0 standing for the ValueError.
num_workers(n, cpus) ==
    IF n <= 0
        THEN (IF cpus - n <= 0 THEN 0 ELSE cpus - n)
        ELSE n

\* prefetch, lines 537-547: nworkers = 0 returns seq itself, no backend
\* is built and no worker started.
prefetch(n, cpus) == IF n = 0 THEN 0 ELSE num_workers(n, cpus)

\* A call of prefetch(seq, nworkers, method)
InitWorkers ==
    /\ NotBuilt
    /\ NoOther
    /\ method \in Methods
    /\ nworkers \in (-MaxCpu)..MaxCpu
    /\ cpu_count \in 1..MaxCpu
    /\ started = -1

StartWorkers ==
    /\ started = -1
    /\ started' = prefetch(nworkers, cpu_count)
    /\ UNCHANGED <<configVars, cleanupVars, rx_open, nworkers, cpu_count,
                   hookVars, otherVars, submits, wasted, backendVars, jobs, completed, pc,
                   item, drainLeft,
                   passthrough, last, access, yielded, reported>>

NextWorkers == StartWorkers

SpecWorkers == InitWorkers /\ [][NextWorkers]_vars

\* --------------------------------------------------------- BufferLoader
\* Everything of the prefetcher
prefetchVars == <<configVars, cleanupVars, rx_open, countVars, hookVars,
                  backendVars, jobs, completed, pc, item, drainLeft,
                  passthrough, last, access, yielded, reported, submits, wasted>>

\* No prefetcher in use
NoPrefetch ==
    /\ NotBuilt
    /\ method = "none"
    /\ nworkers = 0
    /\ cpu_count = 1
    /\ started = -1

\* Mutant of InitialJobs: every slot is queued by the constructor
InitialJobsAll(n) == Range(0, n)

\* `for i in range(max_cached - 1): self.job_queue.put(i)`  (lines 100-101)
InitialJobs(n) == Range(0, n - 1)

\* BufferLoader.__init__ (76-109), its workers started
InitLoader ==
    /\ NoPrefetch
    /\ NoCache
    /\ NoMore
    /\ max_cached \in 1..MaxCached
    /\ n_workers \in 1..MaxWorkers
    /\ bl_job_queue = InitialJobs(max_cached)
    /\ bl_done_queue = <<>>
    /\ bl_workers = [p \in Pids |-> IF p < n_workers THEN "idle" ELSE "off"]
    /\ bl_slot = [p \in Pids |-> -1]
    /\ next_in_queue = max_cached - 1
    /\ bl_pc = "out"
    /\ held = -1
    /\ clobbered = FALSE
    /\ woke = FALSE

\* target, lines 203-219: job_queue.get(timeout) gives a slot, or the
\* sentinel that ends the worker
BLTake(p) ==
    /\ bl_workers[p] = "idle"
    /\ bl_job_queue # <<>>
    /\ bl_job_queue' = Tail(bl_job_queue)
    /\ IF Head(bl_job_queue) < 0
          THEN /\ bl_workers' = [bl_workers EXCEPT ![p] = "stopped"]
               /\ UNCHANGED bl_slot
          ELSE /\ bl_workers' = [bl_workers EXCEPT ![p] = "busy"]
               /\ bl_slot' = [bl_slot EXCEPT ![p] = Head(bl_job_queue)]
    /\ UNCHANGED <<max_cached, n_workers, bl_done_queue, next_in_queue, bl_pc,
                   held, clobbered, woke, prefetchVars, cacheVars, moreVars>>

\* target, lines 221-238: value_slots[slot] = func() writes the slot, or the
\* error is saved; then the completion is posted
BLFinish(p) ==
    /\ bl_workers[p] = "busy"
    /\ \E status \in {"DONE", "FAILED"} :
          /\ bl_done_queue' = Append(bl_done_queue, <<bl_slot[p], status>>)
          /\ clobbered' = (clobbered \/ (status = "DONE" /\ bl_slot[p] = held))
    /\ bl_workers' = [bl_workers EXCEPT ![p] = "idle"]
    /\ bl_slot' = [bl_slot EXCEPT ![p] = -1]
    /\ UNCHANGED <<max_cached, n_workers, bl_job_queue, next_in_queue, bl_pc,
                   held, woke, prefetchVars, cacheVars, moreVars>>

\* target, lines 206-211: job_queue.get times out on an empty queue, the
\* worker posts (-pid - 1, 0) and exits
BLSleep(p) ==
    /\ bl_workers[p] = "idle"
    /\ bl_job_queue = <<>>
    /\ bl_done_queue' = Append(bl_done_queue, <<-p - 1, "0">>)
    /\ bl_workers' = [bl_workers EXCEPT ![p] = "asleep"]
    /\ UNCHANGED <<max_cached, n_workers, bl_job_queue, bl_slot,
                   next_in_queue, bl_pc, held, clobbered, woke, prefetchVars, cacheVars, moreVars>>

\* __next__, lines 160-162: the slot of the previous result is queued again
\* and the consumer waits on done_queue
NextCall ==
    /\ bl_pc = "out"
    /\ bl_job_queue' = Append(bl_job_queue, next_in_queue)
    /\ bl_pc' = "waiting"
    /\ held' = -1
    /\ woke' = FALSE
    /\ UNCHANGED <<max_cached, n_workers, bl_done_queue, bl_workers, bl_slot,
                   next_in_queue, clobbered, prefetchVars, cacheVars, moreVars>>

\* Mutant of Restarted: the first worker is restarted, whoever went to sleep
RestartedFirst(done_slot) == 0

\* The worker __next__ restarts for a negative done_slot (line 166)
Restarted(done_slot) == -done_slot - 1

\* __next__, lines 165-167, and _start_worker (143-154): join the worker
\* that went to sleep, start it again, read done_queue again
NextWake ==
    /\ bl_pc = "waiting"
    /\ bl_done_queue # <<>>
    /\ Head(bl_done_queue)[1] < 0
    /\ Restarted(Head(bl_done_queue)[1]) \in Pids
    /\ bl_workers[Restarted(Head(bl_done_queue)[1])] \in {"asleep", "stopped"}
    /\ bl_workers' =
          [bl_workers EXCEPT ![Restarted(Head(bl_done_queue)[1])] = "idle"]
    /\ bl_done_queue' = Tail(bl_done_queue)
    /\ woke' = TRUE
    /\ UNCHANGED <<max_cached, n_workers, bl_job_queue, bl_slot,
                   next_in_queue, bl_pc, held, clobbered, prefetchVars, cacheVars, moreVars>>

\* Mutant of Handed: the buffer of the following slot is returned
HandedFollowing(done_slot) == (done_slot + 1) % max_cached

\* The slot whose buffer __next__ returns (line 173)
Handed(done_slot) == done_slot

\* __next__, lines 169-186: a computed slot is returned, or the error of a
\* failed one is raised; its slot is the next to be queued
NextReturn ==
    /\ bl_pc = "waiting"
    /\ bl_done_queue # <<>>
    /\ Head(bl_done_queue)[1] >= 0
    /\ next_in_queue' = Head(bl_done_queue)[1]
    /\ held' = IF Head(bl_done_queue)[2] = "DONE"
                   THEN Handed(Head(bl_done_queue)[1]) ELSE -1
    /\ bl_done_queue' = Tail(bl_done_queue)
    /\ bl_pc' = "out"
    /\ UNCHANGED <<max_cached, n_workers, bl_job_queue, bl_workers, bl_slot,
                   clobbered, woke, prefetchVars, cacheVars, moreVars>>

NextLoader ==
    \/ \E p \in Pids : BLTake(p)
    \/ \E p \in Pids : BLFinish(p)
    \/ \E p \in Pids : BLSleep(p)
    \/ NextCall
    \/ NextWake
    \/ NextReturn

SpecLoader == InitLoader /\ [][NextLoader]_vars

\* Workers run fairly, and so does the consumer once inside __next__; it
\* may pause between two calls, and idle workers may or may not time out.
FairLoader ==
    /\ InitLoader
    /\ [][NextLoader]_vars
    /\ WF_vars(\E p \in Pids : BLTake(p))
    /\ \A p \in Pids : WF_vars(BLFinish(p))
    /\ WF_vars(NextWake \/ NextReturn)

\* ------------------------------------------------------- CachedSequence
\* q without its occurrences of x
Without(q, x) == SelectSeq(q, LAMBDA y : y # x)

\* x in q
Holds(q, x) == \E k \in 1..Len(q) : q[k] = x

\* The first element of q that is cached, -1 when there is none
RECURSIVE FirstCached(_, _)
FirstCached(q, c) ==
    IF q = <<>> THEN -1
    ELSE IF Holds(c, Head(q)) THEN Head(q)
    ELSE FirstCached(Tail(q), c)

\* add_cache(arr, cache_size), lines 342-383 and 309-313
InitCache ==
    /\ NoPrefetch
    /\ NoLoader
    /\ NoMore
    /\ cache_size \in 1..MaxCacheSize
    /\ cache = <<>>
    /\ recency = <<>>
    /\ evicted = -1
    /\ lru = -1

\* self.cache.popitem(False): the entry inserted first leaves (line 330)
Evict(c) == Tail(c)

\* CachedSequence.__getitem__, lines 322-332, under self.lock
CacheGet(key) ==
    /\ cache_size > 0
    /\ recency' = Append(Without(recency, key), key)
    /\ IF Holds(cache, key)
          THEN UNCHANGED <<cache, evicted, lru>>
          ELSE IF Len(cache) >= cache_size
              THEN /\ cache' = Append(Evict(cache), key)
                   /\ evicted' = Head(cache)
                   /\ lru' = FirstCached(recency, cache)
              ELSE /\ cache' = Append(cache, key)
                   /\ UNCHANGED <<evicted, lru>>
    /\ UNCHANGED <<cache_size, prefetchVars, loaderVars, moreVars>>

NextCache == \E key \in 0..(MaxKeys - 1) : CacheGet(key)

SpecCache == InitCache /\ [][NextCache]_vars

\* ---------------------------------------------------------------- slices
\* A start, stop or step of a slice: None, or an integer
None == <<>>
Some(x) == <<x>>

\* abs, min and max of Python
Abs(n) == IF n < 0 THEN -n ELSE n
Min2(a, b) == IF a < b THEN a ELSE b
Max2(a, b) == IF a > b THEN a ELSE b

\* normalize_slice(start, stop, step, size), lines 110-151, for step # 0;
\* length is its size argument.
\* The test of line 143 divides with /: it asks for opposite signs.
normalize_slice(start, stop, step, length) ==
    LET st == IF step = None THEN 1 ELSE step[1]
        s0 == IF start = None THEN (IF st > 0 THEN 0 ELSE length - 1)
              ELSE IF start[1] >= 0 THEN Min2(start[1], length - 1)
              ELSE Max2(0, length + start[1])
        e0 == IF stop = None THEN (IF st > 0 THEN length ELSE -1)
              ELSE IF stop[1] >= 0 THEN Min2(stop[1], length)
              ELSE Max2(-1, length + stop[1])
        e1 == IF (e0 - s0) * st < 0 THEN s0 ELSE e0
        sz == Abs(e1 - s0) - 1
        numel == (sz + Abs(st) - (sz % Abs(st))) \div Abs(st)
    IN  [start |-> s0, stop |-> s0 + numel * st, step |-> st]

\* SeqSlice.__init__ over a sequence of length n that is no slice view
\* (lines 165-172); base names the object kept as self.sequence.
SeqSlice(n, key) ==
    LET k == normalize_slice(key.start, key.stop, key.step, n)
    IN  [start |-> k.start, stop |-> k.stop, step |-> k.step,
         base |-> "sequence"]

\* SeqSlice.__len__, lines 174-175
SliceLen(v) == Abs(v.stop - v.start) \div Abs(v.step)

\* SeqSlice.__init__ over a slice view v (lines 156-163, 169-172)
SubSlice(v, key) ==
    LET k == normalize_slice(key.start, key.stop, key.step, SliceLen(v))
        numel == Abs(k.stop - k.start) \div Abs(k.step)
        start == v.start + k.start * v.step
        step == k.step * v.step
    IN  [start |-> start, stop |-> start + step * numel, step |-> step,
         base |-> v.base]

\* len(range(a, b, s)) for s # 0
RangeLen(a, b, s) ==
    IF s > 0 THEN (IF b > a THEN (b - a + s - 1) \div s ELSE 0)
    ELSE (IF a > b THEN (a - b - s - 1) \div (-s) ELSE 0)

\* list(range(a, b, s))
PyRange(a, b, s) == [j \in 1..RangeLen(a, b, s) |-> a + (j - 1) * s]

\* arr[i] on a list of length n: the position read, -1 for IndexError
\* (a list takes negative indices from its end).
ListItem(n, i) ==
    IF i >= 0 /\ i < n THEN i
    ELSE IF i < 0 /\ i >= -n THEN n + i
    ELSE -1

\* The positions of the base list that iterating the view reads
\* (SeqSlice.__iter__, lines 177-179)
IterKeys(v, n) ==
    LET r == PyRange(v.start, v.stop, v.step)
    IN  [j \in 1..Len(r) |-> ListItem(n, r[j])]

\* The positions that v[0], ..., v[len(v) - 1] read (SeqSlice.__getitem__,
\* lines 181-183; basic_getitem passes these keys on unchanged)
IndexKeys(v, n) ==
    [j \in 1..SliceLen(v) |-> ListItem(n, v.start + (j - 1) * v.step)]

\* The slices given to the views
Edges == {None} \cup {Some(x) : x \in (-MaxEdge)..MaxEdge}
Steps == {None} \cup {Some(x) : x \in ((-MaxStep)..MaxStep) \ {0}}
Slices == [start : Edges, stop : Edges, step : Steps]

\* Python's list slicing, arr[start:stop:step] on a list of length n: the
\* positions it lists (slice.indices of the language reference).
ListSlice(n, key) ==
    LET st == IF key.step = None THEN 1 ELSE key.step[1]
        lo == IF st < 0 THEN -1 ELSE 0
        hi == IF st < 0 THEN n - 1 ELSE n
        adj(x) == IF x < 0 THEN Max2(x + n, lo) ELSE Min2(x, hi)
        a == IF key.start = None THEN (IF st < 0 THEN hi ELSE lo)
             ELSE adj(key.start[1])
        b == IF key.stop = None THEN (IF st < 0 THEN lo ELSE hi)
             ELSE adj(key.stop[1])
    IN  PyRange(a, b, st)

\* ------------------------------------------- CachedSequence and threads
ViewKeys == 0..(ViewLen - 1)

\* The values the threads set: none of them is an initial element
SetValues == {Val(ViewLen), Val(ViewLen + 1)}

\* basic_getitem / basic_setitem on an integer key, lines 50-58 and 92-100:
\* the key the decorated method gets, -1 when IndexError is raised
basic_key(n, key) ==
    IF key < -n \/ key >= n THEN -1
    ELSE IF key < 0 THEN n + key
    ELSE key

\* What a thread asks of the view, as <<key, position>>: key is what reaches
\* the decorated __getitem__ / __setitem__, position is the element list
\* indexing names for the same request (-1: none).  view[k] for an integer
\* k, or element j of view[a] for a slice a (basic_getitem line 48, basic_
\* setitem lines 82-90: SeqSlice(self, a), then self[start + j * step]).
ViewRequests ==
    {<<basic_key(ViewLen, k), ListItem(ViewLen, k)>> :
        k \in (-ViewLen)..(ViewLen - 1)}
    \cup
    UNION {LET v == SeqSlice(ViewLen, a)
               l == ListSlice(ViewLen, a)
           IN  {<<basic_key(ViewLen, v.start + (j - 1) * v.step),
                  IF j <= Len(l) THEN l[j] ELSE -1>> : j \in 1..SliceLen(v)}
           : a \in Slices}

\* add_cache(arr, cache_size) over a list, the cache empty (308-313), and
\* the threads that share the view
InitView ==
    /\ NoPrefetch
    /\ NoLoader
    /\ cache_size \in 1..ViewCache
    /\ cache = <<>>
    /\ recency = <<>>
    /\ evicted = -1
    /\ lru = -1
    /\ source = [k \in ViewKeys |-> Val(k)]
    /\ cvalue = [k \in ViewKeys |-> -1]
    /\ lock = 0
    /\ \E n \in 1..MaxThreads :
          tpc = [t \in Threads |-> IF t <= n THEN "idle" ELSE "off"]
    /\ tkey = [t \in Threads |-> -1]
    /\ tval = [t \in Threads |-> -1]
    /\ texp = [t \in Threads |-> -1]
    /\ ret = [t \in Threads |-> -1]
    /\ NoSeq
    /\ NoQueue
    /\ NoShm

\* What the steps of a thread on the view leave alone
viewFrame == <<prefetchVars, loaderVars, cache_size, recency, evicted, lru,
               seqVars, queueVars, shmVars>>

\* A thread calls view[key] or reads an element of view[a]
CallGet(t) ==
    /\ tpc[t] = "idle"
    /\ \E rq \in ViewRequests :
          /\ rq[1] >= 0
          /\ tkey' = [tkey EXCEPT ![t] = rq[1]]
          /\ texp' = [texp EXCEPT ![t] = rq[2]]
    /\ tpc' = [tpc EXCEPT ![t] = "get"]
    /\ UNCHANGED <<cache, source, cvalue, lock, tval, ret, viewFrame>>

\* A thread runs view[key] = value or sets an element of view[a]
CallSet(t) ==
    /\ tpc[t] = "idle"
    /\ \E rq \in ViewRequests :
          /\ rq[1] >= 0
          /\ tkey' = [tkey EXCEPT ![t] = rq[1]]
          /\ texp' = [texp EXCEPT ![t] = rq[2]]
    /\ \E v \in SetValues : tval' = [tval EXCEPT ![t] = v]
    /\ tpc' = [tpc EXCEPT ![t] = "set"]
    /\ UNCHANGED <<cache, source, cvalue, lock, ret, viewFrame>>

\* Mutant of LockFree: `with self.lock` lets every thread in
LockIgnored == TRUE

\* threading.Lock: acquire returns when no thread holds the lock
LockFree == lock = 0

\* `with self.lock:`  (lines 324, 336)
Acquire(t) ==
    /\ tpc[t] \in {"get", "set"}
    /\ LockFree
    /\ lock' = t
    /\ tpc' = [tpc EXCEPT ![t] = IF tpc[t] = "get" THEN "lookup" ELSE "store"]
    /\ UNCHANGED <<cache, source, cvalue, tkey, tval, texp, ret, viewFrame>>

\* lines 325-328: a hit returns the cached value, a miss reads the source
Lookup(t) ==
    /\ tpc[t] = "lookup"
    /\ IF Holds(cache, tkey[t])
          THEN /\ ret' = [ret EXCEPT ![t] = cvalue[tkey[t]]]
               /\ tpc' = [tpc EXCEPT ![t] = "got"]
          ELSE /\ ret' = [ret EXCEPT ![t] = source[tkey[t]]]
               /\ tpc' = [tpc EXCEPT ![t] = "miss"]
    /\ UNCHANGED <<cache, source, cvalue, lock, tkey, tval, texp, viewFrame>>

\* lines 329-330: make room in a full cache
MakeRoom(t) ==
    /\ tpc[t] = "miss"
    /\ IF Len(cache) >= cache_size /\ cache # <<>>
          THEN /\ cache' = Evict(cache)
               /\ cvalue' = [cvalue EXCEPT ![Head(cache)] = -1]
          ELSE UNCHANGED <<cache, cvalue>>
    /\ tpc' = [tpc EXCEPT ![t] = "insert"]
    /\ UNCHANGED <<source, lock, tkey, tval, texp, ret, viewFrame>>

\* line 331: self.cache[key] = value
Insert(t) ==
    /\ tpc[t] = "insert"
    /\ cache' = IF Holds(cache, tkey[t]) THEN cache
                ELSE Append(cache, tkey[t])
    /\ cvalue' = [cvalue EXCEPT ![tkey[t]] = ret[t]]
    /\ tpc' = [tpc EXCEPT ![t] = "got"]
    /\ UNCHANGED <<source, lock, tkey, tval, texp, ret, viewFrame>>

\* line 337: self.sequence[key] = value
SetSource(t) ==
    /\ tpc[t] = "store"
    /\ source' = [source EXCEPT ![tkey[t]] = tval[t]]
    /\ tpc' = [tpc EXCEPT ![t] = "update"]
    /\ UNCHANGED <<cache, cvalue, lock, tkey, tval, texp, ret, viewFrame>>

\* lines 338-339: a cached key gets the new value
SetCached(t) ==
    /\ tpc[t] = "update"
    /\ cvalue' = IF Holds(cache, tkey[t])
                    THEN [cvalue EXCEPT ![tkey[t]] = tval[t]]
                    ELSE cvalue
    /\ tpc' = [tpc EXCEPT ![t] = "done"]
    /\ UNCHANGED <<cache, source, lock, tkey, tval, texp, ret, viewFrame>>

\* The end of the with block: the lock is released and the call returns
Release(t) ==
    /\ tpc[t] \in {"got", "done"}
    /\ lock' = IF lock = t THEN 0 ELSE lock
    /\ tpc' = [tpc EXCEPT ![t] = "idle"]
    /\ ret' = [ret EXCEPT ![t] = -1]
    /\ UNCHANGED <<cache, source, cvalue, tkey, tval, texp, viewFrame>>

\* CachedSequence.__iter__ (318-320) hands out iter(self.sequence): a
\* thread that iterates the view reads an element of the source.
Iterate(t) ==
    /\ tpc[t] = "idle"
    /\ \E k \in ViewKeys :
          /\ ret' = [ret EXCEPT ![t] = source[k]]
          /\ tkey' = [tkey EXCEPT ![t] = k]
    /\ tpc' = [tpc EXCEPT ![t] = "yield"]
    /\ UNCHANGED <<cache, source, cvalue, lock, tval, texp, viewFrame>>

\* The iterating thread takes the element and goes on
Resume(t) ==
    /\ tpc[t] = "yield"
    /\ tpc' = [tpc EXCEPT ![t] = "idle"]
    /\ ret' = [ret EXCEPT ![t] = -1]
    /\ UNCHANGED <<cache, source, cvalue, lock, tkey, tval, texp, viewFrame>>

NextView ==
    \/ \E t \in Threads : CallGet(t)
    \/ \E t \in Threads : CallSet(t)
    \/ \E t \in Threads : Acquire(t)
    \/ \E t \in Threads : Lookup(t)
    \/ \E t \in Threads : MakeRoom(t)
    \/ \E t \in Threads : Insert(t)
    \/ \E t \in Threads : SetSource(t)
    \/ \E t \in Threads : SetCached(t)
    \/ \E t \in Threads : Release(t)
    \/ \E t \in Threads : Iterate(t)
    \/ \E t \in Threads : Resume(t)

SpecView == InitView /\ [][NextView]_vars

\* ------------------------------------------------------------ SeqSlice
\* arr and a slice key, before SeqSlice(arr, key): arr is a list
InitSlice ==
    /\ NoPrefetch
    /\ NoLoader
    /\ NoCache
    /\ NoView
    /\ NoQueue
    /\ NoShm
    /\ \E n \in 0..MaxLen : lens = <<n>>
    /\ \E a \in Slices : args = <<a>>
    /\ view = <<>>
    /\ out = <<>>
    /\ stage = "args"

\* len(v), list(v) and [v[i] for i in range(len(v))] of a slice view v over
\* a list of length n, as positions of the list
Listing(v, n) ==
    [len |-> SliceLen(v), iter |-> IterKeys(v, n), index |-> IndexKeys(v, n)]

\* v = SeqSlice(arr, key)
MakeSlice ==
    /\ stage = "args"
    /\ view' = SeqSlice(lens[1], args[1])
    /\ out' = Listing(SeqSlice(lens[1], args[1]), lens[1])
    /\ stage' = "slice"
    /\ UNCHANGED <<lens, args, prefetchVars, loaderVars, cacheVars, viewVars,
                   queueVars, shmVars>>

\* v[b] for a slice b: basic_getitem (line 48) builds SeqSlice(v, b)
Reslice ==
    /\ stage = "slice"
    /\ \E b \in Slices :
          /\ args' = Append(args, b)
          /\ view' = SubSlice(view, b)
          /\ out' = Listing(SubSlice(view, b), lens[1])
    /\ stage' = "subslice"
    /\ UNCHANGED <<lens, prefetchVars, loaderVars, cacheVars, viewVars,
                   queueVars, shmVars>>

NextSlice == MakeSlice \/ Reslice

SpecSlice == InitSlice /\ [][NextSlice]_vars

\* ---------------------------------------------------- SharedCtypeQueue
\* Mutant of PutSlots: the put semaphore starts with one permit too many
PutSlotsMore(n) == n + 1

\* `self.putsem = multiprocessing.Semaphore(maxsize)`  (line 202)
PutSlots(n) == n

\* SharedCtypeQueue.__init__ (192-202), the queue shared by the processes
InitQueue ==
    /\ NoPrefetch
    /\ NoLoader
    /\ NoCache
    /\ NoView
    /\ NoSeq
    /\ NoShm
    /\ q_maxsize \in 1..MaxSize
    /\ q_values = [s \in 0..(q_maxsize - 1) |-> 0]
    /\ q_start = 0
    /\ q_stop = 0
    /\ startlock = 0
    /\ stoplock = 0
    /\ getsem = 0
    /\ putsem = PutSlots(q_maxsize)
    /\ qpc = [p \in Procs |-> "idle"]
    /\ qlocal = [p \in Procs |-> 0]
    /\ put_log = <<>>
    /\ get_log = <<>>
    /\ made = 0

\* What the steps on the queue leave alone
queueFrame == <<prefetchVars, loaderVars, cacheVars, viewVars, seqVars,
                shmVars, q_maxsize>>

\* put, line 223: self.putsem.acquire returns once a slot is free
PutAcquire(p) ==
    /\ qpc[p] = "idle"
    /\ made < MaxItems
    /\ putsem > 0
    /\ putsem' = putsem - 1
    /\ made' = made + 1
    /\ qlocal' = [qlocal EXCEPT ![p] = made + 1]
    /\ qpc' = [qpc EXCEPT ![p] = "put_lock"]
    /\ UNCHANGED <<q_values, q_start, q_stop, startlock, stoplock, getsem,
                   put_log, get_log, queueFrame>>

\* line 226: with self.stoplock
PutLock(p) ==
    /\ qpc[p] = "put_lock"
    /\ stoplock = 0
    /\ stoplock' = p
    /\ qpc' = [qpc EXCEPT ![p] = "put_write"]
    /\ UNCHANGED <<q_values, q_start, q_stop, startlock, getsem, putsem,
                   qlocal, put_log, get_log, made, queueFrame>>

\* lines 227-230: struct.pack_into at offset stop % maxsize
PutWrite(p) ==
    /\ qpc[p] = "put_write"
    /\ q_values' = [q_values EXCEPT ![q_stop % q_maxsize] = qlocal[p]]
    /\ qpc' = [qpc EXCEPT ![p] = "put_advance"]
    /\ UNCHANGED <<q_start, q_stop, startlock, stoplock, getsem, putsem,
                   qlocal, put_log, get_log, made, queueFrame>>

\* lines 231-233: the slot becomes readable
PutAdvance(p) ==
    /\ qpc[p] = "put_advance"
    /\ q_stop' = q_stop + 1
    /\ getsem' = getsem + 1
    /\ put_log' = Append(put_log, qlocal[p])
    /\ qpc' = [qpc EXCEPT ![p] = "put_unlock"]
    /\ UNCHANGED <<q_values, q_start, startlock, stoplock, putsem, qlocal,
                   get_log, made, queueFrame>>

\* the end of `with self.stoplock`: put returns
PutUnlock(p) ==
    /\ qpc[p] = "put_unlock"
    /\ stoplock' = 0
    /\ qlocal' = [qlocal EXCEPT ![p] = 0]
    /\ qpc' = [qpc EXCEPT ![p] = "idle"]
    /\ UNCHANGED <<q_values, q_start, q_stop, startlock, getsem, putsem,
                   put_log, get_log, made, queueFrame>>

\* get, line 206: self.getsem.acquire returns once an item is readable
GetAcquire(p) ==
    /\ qpc[p] = "idle"
    /\ getsem > 0
    /\ getsem' = getsem - 1
    /\ qpc' = [qpc EXCEPT ![p] = "get_lock"]
    /\ UNCHANGED <<q_values, q_start, q_stop, startlock, stoplock, putsem,
                   qlocal, put_log, get_log, made, queueFrame>>

\* line 209: with self.startlock
GetLock(p) ==
    /\ qpc[p] = "get_lock"
    /\ startlock = 0
    /\ startlock' = p
    /\ qpc' = [qpc EXCEPT ![p] = "get_read"]
    /\ UNCHANGED <<q_values, q_start, q_stop, stoplock, getsem, putsem,
                   qlocal, put_log, get_log, made, queueFrame>>

\* lines 210-214: struct.unpack of the slot at offset start % maxsize
GetRead(p) ==
    /\ qpc[p] = "get_read"
    /\ qlocal' = [qlocal EXCEPT ![p] = q_values[q_start % q_maxsize]]
    /\ get_log' = Append(get_log, q_values[q_start % q_maxsize])
    /\ qpc' = [qpc EXCEPT ![p] = "get_advance"]
    /\ UNCHANGED <<q_values, q_start, q_stop, startlock, stoplock, getsem,
                   putsem, put_log, made, queueFrame>>

\* lines 215-217: the slot is released for writing
GetAdvance(p) ==
    /\ qpc[p] = "get_advance"
    /\ q_start' = q_start + 1
    /\ putsem' = putsem + 1
    /\ qpc' = [qpc EXCEPT ![p] = "get_unlock"]
    /\ UNCHANGED <<q_values, q_stop, startlock, stoplock, getsem, qlocal,
                   put_log, get_log, made, queueFrame>>

\* the end of `with self.startlock`: get returns the value (line 219)
GetUnlock(p) ==
    /\ qpc[p] = "get_unlock"
    /\ startlock' = 0
    /\ qlocal' = [qlocal EXCEPT ![p] = 0]
    /\ qpc' = [qpc EXCEPT ![p] = "idle"]
    /\ UNCHANGED <<q_values, q_start, q_stop, stoplock, getsem, putsem,
                   put_log, get_log, made, queueFrame>>

NextQueue ==
    \/ \E p \in Procs : PutAcquire(p)
    \/ \E p \in Procs : PutLock(p)
    \/ \E p \in Procs : PutWrite(p)
    \/ \E p \in Procs : PutAdvance(p)
    \/ \E p \in Procs : PutUnlock(p)
    \/ \E p \in Procs : GetAcquire(p)
    \/ \E p \in Procs : GetLock(p)
    \/ \E p \in Procs : GetRead(p)
    \/ \E p \in Procs : GetAdvance(p)
    \/ \E p \in Procs : GetUnlock(p)

SpecQueue == InitQueue /\ [][NextQueue]_vars

\* ---------------------------------------------------------------- smap
\* The lengths of the sequences handed to smap or interleave
LenTuples == UNION {[1..k -> 0..MaxLen] : k \in 1..MaxSeqs}

\* smap(f, s0, s1, ...) before the call: the sequences are lists
InitMap ==
    /\ NoPrefetch
    /\ NoLoader
    /\ NoCache
    /\ NoView
    /\ NoQueue
    /\ NoShm
    /\ lens \in LenTuples
    /\ args = <<>>
    /\ view = <<>>
    /\ out = <<>>
    /\ stage = "args"

\* Mapping.__len__, lines 16-17
MapLen(ls) == ls[1]

\* How many tuples zip(*sequences) yields (line 22)
ZipLen(ls) ==
    Cardinality({i \in 0..(MaxLen - 1) : \A s \in 1..Len(ls) : i < ls[s]})

\* f(s0[i], s1[i], ...), named by i
Applied(i) == [outcome |-> "value", at |-> i]

\* list(iter(mapping)), lines 19-23
MapIter(ls) == [j \in 1..ZipLen(ls) |-> Applied(j - 1)]

\* mapping[key] for an integer key: basic_getitem, then lines 34-44.  An
\* l[item] past the end of a sequence raises IndexError inside the try, and
\* the except clause raises EvaluationError from it (seterr() there returns
\* None).
MapItem(ls, key) ==
    LET i == basic_key(MapLen(ls), key)
    IN  IF i < 0 THEN [outcome |-> "IndexError", at |-> -1]
        ELSE IF \E s \in 1..Len(ls) : ListItem(ls[s], i) < 0
            THEN [outcome |-> "EvaluationError", at |-> i]
        ELSE Applied(i)

\* What the steps on a view over sequences leave alone
seqFrame == <<prefetchVars, loaderVars, cacheVars, viewVars, queueVars,
              shmVars>>

\* m = smap(f, *sequences); len(m); list(m)
MakeMap ==
    /\ stage = "args"
    /\ view' = [sequences |-> lens]
    /\ out' = [len |-> MapLen(lens), iter |-> MapIter(lens)]
    /\ stage' = "smap"
    /\ UNCHANGED <<lens, args, seqFrame>>

\* m[key]
MapGet ==
    /\ stage = "smap"
    /\ \E key \in (-MaxLen)..(MaxLen - 1) :
          /\ args' = <<key>>
          /\ out' = [len |-> out.len, iter |-> out.iter,
                     get |-> MapItem(view.sequences, key)]
    /\ stage' = "get"
    /\ UNCHANGED <<lens, view, seqFrame>>

NextMap == MakeMap \/ MapGet

SpecMap == InitMap /\ [][NextMap]_vars

\* ---------------------------------------------------------- interleave
\* interleave(s0, s1, ...) before the call: the sequences are lists
InitInterleave ==
    /\ NoPrefetch
    /\ NoLoader
    /\ NoCache
    /\ NoView
    /\ NoQueue
    /\ NoShm
    /\ lens \in LenTuples
    /\ args = <<>>
    /\ view = <<>>
    /\ out = <<>>
    /\ stage = "args"

\* sorted(S) for a set of integers
SortedSeq(S) ==
    CHOOSE q \in [1..Cardinality(S) -> S] :
        \A a, b \in 1..Cardinality(S) : a < b => q[a] < q[b]

\* sorted(range(len(sequences)), key=lambda k: len(sequences[k])), lines
\* 243-244: the sequences (numbered from 0) by length, the sort is stable
whose_offset(ls) ==
    CHOOSE w \in [1..Len(ls) -> 0..(Len(ls) - 1)] :
        \A a, b \in 1..Len(ls) :
            a < b => \/ ls[w[a] + 1] < ls[w[b] + 1]
                     \/ ls[w[a] + 1] = ls[w[b] + 1] /\ w[a] < w[b]

\* offsets_in (lines 241, 249), as a 1-based tuple
offsets_in(ls) ==
    [j \in 1..(Len(ls) + 1) |->
        IF j = 1 THEN 0 ELSE ls[whose_offset(ls)[j - 1] + 1]]

\* offsets_out[j - 1] of lines 242-248
RECURSIVE OutOffset(_, _)
OutOffset(ls, j) ==
    IF j <= 1 THEN 0
    ELSE OutOffset(ls, j - 1)
            + (offsets_in(ls)[j] - offsets_in(ls)[j - 1]) * (Len(ls) - j + 2)

offsets_out(ls) == [j \in 1..(Len(ls) + 1) |-> OutOffset(ls, j)]

\* Mutant of remaining_seqs: the sequences left, not sorted again
remaining_unsorted(ls) ==
    [i \in 1..Len(ls) |->
        [j \in 1..(Len(ls) - i + 1) |-> whose_offset(ls)[i + j - 1]]]

\* remaining_seqs (lines 254-255), as a 1-based tuple
remaining_seqs(ls) ==
    [i \in 1..Len(ls) |->
        SortedSeq({whose_offset(ls)[j] : j \in i..Len(ls)})]

\* Interleaving.__init__, lines 240-255
Interleaving(ls) ==
    [n_seqs |-> Len(ls), offsets_in |-> offsets_in(ls),
     offsets_out |-> offsets_out(ls), remaining_seqs |-> remaining_seqs(ls)]

\* bisect.bisect(a, x) on a sorted tuple a (line 262)
bisect(a, x) == Cardinality({j \in 1..Len(a) : a[j] <= x})

\* Interleaving._convert_1d_key, lines 260-267: <<seq, idx>>
convert_1d_key(v, key) ==
    LET n_exhausted == bisect(v.offsets_out, key) - 1
        n_remaining_seqs == v.n_seqs - n_exhausted
        k == key - v.offsets_out[n_exhausted + 1]
    IN  <<v.remaining_seqs[n_exhausted + 1][(k % n_remaining_seqs) + 1],
          v.offsets_in[n_exhausted + 1] + (k \div n_remaining_seqs)>>

\* Interleaving.__len__, lines 257-258
RECURSIVE Sum(_)
Sum(ls) == IF ls = <<>> THEN 0 ELSE Head(ls) + Sum(Tail(ls))

\* y[key] for an integer key (basic_getitem, then lines 279-282): the
\* element read, as <<sequence, position>>; <<-1, -1>> for IndexError
InterleaveItem(ls, v, key) ==
    LET i == basic_key(Sum(ls), key)
        c == convert_1d_key(v, i)
    IN  IF i < 0 THEN <<-1, -1>>
        ELSE IF ListItem(ls[c[1] + 1], c[2]) < 0 THEN <<-1, -1>>
        ELSE <<c[1], ListItem(ls[c[1] + 1], c[2])>>

\* q without its n-th element (del iterators[i], line 277)
Remove(q, n) == [j \in 1..(Len(q) - 1) |-> IF j < n THEN q[j] ELSE q[j + 1]]

\* Interleaving.__iter__, lines 269-278: its is the list of iterators, each
\* <<sequence, next position>>, i the loop variable, acc what was yielded
RECURSIVE Rotate(_, _, _, _)
Rotate(ls, its, i, acc) ==
    IF its = <<>> THEN acc
    ELSE LET n == (i + 1) % Len(its)
             it == its[n + 1]
         IN  IF it[2] < ls[it[1] + 1]
                THEN Rotate(ls, [its EXCEPT ![n + 1] = <<it[1], it[2] + 1>>],
                            n, Append(acc, it))
                ELSE Rotate(ls, Remove(its, n + 1), n - 1, acc)

InterleaveIter(ls) == Rotate(ls, [s \in 1..Len(ls) |-> <<s - 1, 0>>], -1, <<>>)

\* y = interleave(*sequences); len(y); list(y); [y[i] for i in range(len(y))]
MakeInterleave ==
    /\ stage = "args"
    /\ view' = Interleaving(lens)
    /\ out' = [len |-> Sum(lens), iter |-> InterleaveIter(lens),
               index |-> [j \in 1..Sum(lens) |->
                            InterleaveItem(lens, Interleaving(lens), j - 1)]]
    /\ stage' = "interleave"
    /\ UNCHANGED <<lens, args, seqFrame>>

\* y[key] for any integer key
InterleaveGet ==
    /\ stage = "interleave"
    /\ \E key \in (-Sum(lens))..Sum(lens) :
          /\ args' = <<key>>
          /\ out' = [len |-> out.len, iter |-> out.iter, index |-> out.index,
                     get |-> InterleaveItem(lens, view, key)]
    /\ stage' = "get"
    /\ UNCHANGED <<lens, view, seqFrame>>

NextInterleave == MakeInterleave \/ InterleaveGet

SpecInterleave == InitInterleave /\ [][NextInterleave]_vars

\* --------------------------------------------------------------- batch
\* The pad value in a batch (the elements are named by their positions)
Pad == -1

\* batch(seq, k, drop_last, pad) before the call: seq is a list
InitBatch ==
    /\ NoPrefetch
    /\ NoLoader
    /\ NoCache
    /\ NoView
    /\ NoQueue
    /\ NoShm
    /\ \E n \in 0..MaxLen : lens = <<n>>
    /\ args \in [k : 1..MaxBatch, drop_last : BOOLEAN,
                 pad : {None, Some(Pad)}]
    /\ view = <<>>
    /\ out = <<>>
    /\ stage = "args"

\* BatchView.__len__, lines 126-128
BatchLen(n, v) ==
    LET extra == (n % v.batch_size > 0) /\ ~v.drop_last
    IN  (n \div v.batch_size) + (IF extra THEN 1 ELSE 0)

\* BatchView.__getitem__ for a key basic_getitem let through, lines
\* 134-146, without collate_fn: the elements of the batch
BatchItems(n, v, key) ==
    LET result == ListSlice(n, [start |-> Some(key * v.batch_size),
                               stop |-> Some((key + 1) * v.batch_size),
                               step |-> None])
        pad_size == v.batch_size - (n % v.batch_size)
    IN  IF key = BatchLen(n, v) - 1 /\ v.pad # None
           THEN result \o [j \in 1..pad_size |-> v.pad[1]]
           ELSE result

\* list(batches), lines 130-132
BatchIter(n, v) == [j \in 1..BatchLen(n, v) |-> BatchItems(n, v, j - 1)]

\* BatchView.__init__, lines 115-121
BatchView(a) == [batch_size |-> a.k, drop_last |-> a.drop_last, pad |-> a.pad]

\* b = batch(seq, k, drop_last, pad); len(b); list(b)
MakeBatch ==
    /\ stage = "args"
    /\ view' = BatchView(args)
    /\ out' = [len |-> BatchLen(lens[1], BatchView(args)),
               iter |-> BatchIter(lens[1], BatchView(args))]
    /\ stage' = "batch"
    /\ UNCHANGED <<lens, args, seqFrame>>

\* b[key] for an integer key in range, negative keys included
BatchGet ==
    /\ stage = "batch"
    /\ \E key \in (-out.len)..(out.len - 1) :
          out' = [len |-> out.len, iter |-> out.iter, key |-> key,
                  get |-> BatchItems(lens[1], view, basic_key(out.len, key))]
    /\ stage' = "get"
    /\ UNCHANGED <<lens, args, view, seqFrame>>

NextBatch == MakeBatch \/ BatchGet

SpecBatch == InitBatch /\ [][NextBatch]_vars

\* --------------------------------------------------------------- Arange
\* Arange.__init__(start, stop, step), lines 12-27, for step # 0.  The
\* test of line 20 divides with /: it asks for opposite signs.
Arange(start, stop, step) ==
    LET e == IF (stop - start) * step < 0 THEN start ELSE stop
        sz == Abs(e - start) - 1
        numel == (sz + Abs(step) - (sz % Abs(step))) \div Abs(step)
    IN  [start |-> start, stop |-> start + step * numel, step |-> step]

\* Arange.__len__, lines 29-30
ArangeLen(a) == Abs(a.stop - a.start) \div Abs(a.step)

\* Arange.__iter__, lines 32-33
ArangeIter(a) == PyRange(a.start, a.stop, a.step)

\* Mutant of ArangeItem: the key is counted from the end when negative
ArangeItemFromEnd(a, key) ==
    a.start + a.step * (IF key < 0 THEN ArangeLen(a) + key ELSE key)

\* Arange.__getitem__(key) for an integer key, line 53: no test of the key
ArangeItem(a, key) == a.start + a.step * key

\* Arange.__getitem__(key) for a slice, lines 36-45
ArangeSlice(a, key) ==
    LET n == normalize_slice(key.start, key.stop, key.step, ArangeLen(a))
        numel == Abs(n.stop - n.start) \div Abs(n.step)
        start == a.start + a.step * n.start
        step == a.step * n.step
    IN  Arange(start, start + step * numel, step)

\* The arguments given to arange
Starts == (-MaxEdge)..MaxEdge
Strides == ((-MaxStep)..MaxStep) \ {0}

\* start, stop and step, before arange(start, stop, step)
InitArange ==
    /\ NoPrefetch
    /\ NoLoader
    /\ NoCache
    /\ NoView
    /\ NoQueue
    /\ NoShm
    /\ lens = <<>>
    /\ \E a \in Starts, b \in Starts, s \in Strides :
          args = <<[start |-> a, stop |-> b, step |-> s]>>
    /\ view = <<>>
    /\ out = <<>>
    /\ stage = "args"

\* a = arange(start, stop, step); len(a); list(a)
MakeArange ==
    /\ stage = "args"
    /\ view' = Arange(args[1].start, args[1].stop, args[1].step)
    /\ out' = [len |-> ArangeLen(view'), iter |-> ArangeIter(view')]
    /\ stage' = "arange"
    /\ UNCHANGED <<lens, args, seqFrame>>

\* a[key] for an integer key: nothing in __getitem__ raises IndexError
ArangeGet ==
    /\ stage = "arange"
    /\ \E key \in (-(MaxLen + 1))..MaxLen :
          out' = [key |-> key, value |-> ArangeItem(view, key),
                  error |-> FALSE]
    /\ stage' = "item"
    /\ UNCHANGED <<lens, args, view, seqFrame>>

\* list(a[key]) for a slice key
ArangeGetSlice ==
    /\ stage = "arange"
    /\ \E key \in Slices :
          out' = [key |-> key, list |-> ArangeIter(ArangeSlice(view, key))]
    /\ stage' = "sliced"
    /\ UNCHANGED <<lens, args, view, seqFrame>>

NextArange == MakeArange \/ ArangeGet \/ ArangeGetSlice

SpecArange == InitArange /\ [][NextArange]_vars

\* ---------------------------------------------------------------- uniter
\* The k-th element the iterable produces (distinct from its index)
Elem(k) == 20 + k

\* A fresh UnIter: UnIter.__init__, lines 506-511.  iterator is the number
\* of elements taken from the running iterator.
UnIter == [iterator |-> 0, next_i |-> 0, cache |-> <<>>]

\* UnIter.i, lines 513-515
UnIterI(u) == u.next_i - Len(u.cache)

\* cache.append(v) on deque(maxlen=m)
DequeAppend(c, v, m) ==
    IF m = 0 THEN <<>>
    ELSE IF Len(c) >= m THEN Append(Tail(c), v)
    ELSE Append(c, v)

\* next(self.iterator) appended to the cache, n elements of the iterable
\* being left to produce: StopIteration (stopped) once it is exhausted
Step(u, m, n) ==
    IF u.iterator >= n THEN [u EXCEPT !.iterator = -1]
    ELSE [u EXCEPT !.iterator = @ + 1,
                   !.cache = DequeAppend(@, Elem(u.iterator), m)]

\* `for _ in range(k): self.cache.append(next(self.iterator))`, line 540-541
RECURSIVE Advance(_, _, _, _)
Advance(u, k, m, n) ==
    IF k <= 0 \/ u.iterator < 0 THEN u
    ELSE Advance(Step(u, m, n), k - 1, m, n)

\* Mutant of Skipped: one more element is skipped
SkippedOneMore(u, i) == i - u.next_i + 1

\* range(item - self.next_i), line 540
Skipped(u, i) == i - u.next_i

\* UnIter.__getitem__(i) for 0 <= i, lines 530-547: the UnIter it leaves
\* and the value it returns; m is the cache size, n the number of elements
\* of the iterable.
UnIterGet(u, i, m, n) ==
    IF UnIterI(u) <= i /\ i < u.next_i
        THEN [u |-> u, value |-> u.cache[Len(u.cache) + (i - u.next_i) + 1],
              hit |-> TRUE, restarted |-> FALSE, stopped |-> FALSE]
    ELSE LET from == IF i < UnIterI(u) THEN UnIter ELSE u
             at == Advance(from, Skipped(from, i), m, n)
             got == Step(at, m, n)
         IN  IF at.iterator < 0 \/ got.iterator < 0
                 THEN [u |-> [at EXCEPT !.iterator = n], value |-> -1,
                       hit |-> FALSE, restarted |-> i < UnIterI(u),
                       stopped |-> TRUE]
             ELSE [u |-> [got EXCEPT !.next_i = i + 1],
                   value |-> Elem(at.iterator), hit |-> FALSE,
                   restarted |-> i < UnIterI(u), stopped |-> FALSE]

\* The tests of the key, lines 523-530 and 563-570: the index to read, or
\* -1 for IndexError
UniterIndex(key, sz) ==
    IF key < 0 /\ sz = None THEN -1
    ELSE LET i == IF key < 0 THEN key + sz[1] ELSE key
         IN  IF i < 0 \/ (sz # None /\ i >= sz[1]) THEN -1 ELSE i

\* The iterator ParallelUniter.__getitem__ reads, lines 572-575: the last
\* of the list that is not past the item, the first one when there is none
Closest(us, i) ==
    LET S == {k \in 1..Len(us) : UnIterI(us[k]) <= i}
    IN  IF S = {} THEN 1 ELSE CHOOSE k \in S : \A j \in S : j <= k

\* `self.uniterators.insert(0, self.uniterators.pop(-1))`, line 578
Rotated(us) == <<us[Len(us)]>> \o SubSeq(us, 1, Len(us) - 1)

\* The iterable, and the arguments of uniter: n elements to produce, a
\* cache size, a number of iterators, and the size when it is given
InitUniter ==
    /\ NoPrefetch
    /\ NoLoader
    /\ NoCache
    /\ NoView
    /\ NoQueue
    /\ NoShm
    /\ \E n \in 1..MaxLen : \E m \in 0..MaxSize : \E p \in 1..MaxParallel :
          /\ lens = <<n>>
          /\ args \in {<<[cache_size |-> m, n_parallel |-> p, size |-> z]>> :
                          z \in {None, Some(n)}}
    /\ view = <<>>
    /\ out = <<>>
    /\ stage = "args"

\* uniter(iterable, cache_size, n_parallel, size), lines 624-627; the list
\* of a ParallelUniter is built at line 553
MakeUniter ==
    /\ stage = "args"
    /\ view' = [k \in 1..args[1].n_parallel |-> UnIter]
    /\ stage' = "uniter"
    /\ UNCHANGED <<lens, args, out, seqFrame>>

\* u[key]: UnIter.__getitem__ (522-547) when n_parallel = 1,
\* ParallelUniter.__getitem__ (562-582) otherwise
UniterGet ==
    /\ stage \in {"uniter", "got"}
    /\ \E key \in (-lens[1])..(lens[1] - 1) :
          LET i == UniterIndex(key, args[1].size)
              turn == args[1].n_parallel > 1
                          /\ UnIterI(view[Closest(view, i)]) > i
              us == IF turn THEN Rotated(view) ELSE view
              c == IF args[1].n_parallel = 1 \/ turn THEN 1
                   ELSE Closest(view, i)
              r == UnIterGet(us[c], i, args[1].cache_size, lens[1])
          IN  IF i < 0
                  THEN /\ out' = [key |-> key, value |-> -1,
                                  error |-> "IndexError", hit |-> FALSE,
                                  restarted |-> FALSE]
                       /\ UNCHANGED view
              ELSE /\ view' = [us EXCEPT ![c] = r.u]
                   /\ out' = [key |-> key, value |-> r.value,
                              error |-> IF r.stopped THEN "StopIteration"
                                        ELSE "none",
                              hit |-> r.hit, restarted |-> r.restarted]
    /\ stage' = "got"
    /\ UNCHANGED <<lens, args, seqFrame>>

NextUniter == MakeUniter \/ UniterGet

SpecUniter == InitUniter /\ [][NextUniter]_vars

\* ------------------------------------------------- shared-memory slots
\* The slots of the arena the backend was built with
Arena == 0..(max_buffered - 1)

\* How many times x occurs in the sequence q
Count(q, x) == Cardinality({k \in 1..Len(q) : q[k] = x})

\* The orders in which the elements of a finite set can be taken
Orders(S) ==
    {f \in [1..Cardinality(S) -> S] :
        \A j, k \in 1..Cardinality(S) : j # k => f[j] # f[k]}

\* Mutant of Recycled: the callback puts the slot on the queue twice
RecycledTwice(q, s) == Append(Append(q, s), s)

\* BufferRecycler.recycle, lines 197-199: buffer_queue.put_nowait
Recycled(q, s) == Append(q, s)

\* RefCountedBuffer(buf, cb): cb runs once when the last reference to a
\* buffer handed out is dropped.  The entries of seq are dropped in turn.
RECURSIVE callback(_, _)
callback(q, seq) ==
    IF seq = <<>> THEN q
    ELSE callback(Recycled(q, Head(seq).slot), Tail(seq))

\* The items that have a buffer in result_buffers
Items(rb) == {e.item : e \in rb}

\* result_buffers[i]
Buffer(rb, i) == CHOOSE e \in rb : e.item = i

\* A job of the shared-memory backend: (item, slot), line 258
SlotJob(i, s) == [idx |-> i, stale |-> FALSE, slot |-> s]

\* A completion as Prefetch.completed keeps it: the value unpacked at line
\* 278 is made of views of the slot's buffer (-1: an error, no buffer)
Buffered(c, s) ==
    [idx |-> c.idx, success |-> c.success, value |-> c.value,
     error |-> c.error, stale |-> c.stale, slot |-> s]

\* The entries of Prefetch.completed whose value holds a buffer
Values(c) == {e \in c : e.success}

\* Prefetch over the shared-memory backend, after both constructors: the
\* recycler queues every slot (172-179) and Prefetch.__init__ submits
\* buffer_size jobs (445-447), each with the slot at the head of the queue.
InitShm ==
    /\ infinite = FALSE
    /\ method = "sharedmem"
    /\ buffer_size \in 1..MaxBuffered
    /\ size \in Sizes
    /\ failing \in SUBSET (1..(size - 1))
    /\ picklable_err = TRUE
    /\ unsendable = {}
    /\ \E n \in 1..MaxWorkers :
          /\ n <= max_buffered
          /\ wstate = [w \in Workers |-> IF w <= n THEN "idle" ELSE "off"]
          /\ wmode = [w \in Workers |-> w <= n]
          /\ nworkers = n
          /\ started = n
    /\ cpu_count = 1
    /\ pipe_cap = MaxBuffered + 1
    /\ cleanup = "none"
    /\ joining = 0
    /\ rx_open = TRUE
    /\ wjob = [w \in Workers |-> NoJob]
    /\ jobs = Range(0, buffer_size)
    /\ job_queue = [k \in 1..buffer_size |-> SlotJob(k - 1, k - 1)]
    /\ buffer_queue = [k \in 1..(max_buffered - buffer_size) |->
                          buffer_size + k - 1]
    /\ result_buffers = {[item |-> k, slot |-> k] : k \in 0..(buffer_size - 1)}
    /\ handles = [s \in Slots |-> 0]
    /\ tosubmit = <<>>
    /\ done_queue = <<>>
    /\ pipes = [w \in Workers |-> <<>>]
    /\ worker_died = FALSE
    /\ completed = {}
    /\ pc = "idle"
    /\ item = 0
    /\ drainLeft = 0
    /\ passthrough = FALSE
    /\ last = NoResult
    /\ yielded = <<>>
    /\ reported = {}
    /\ submits = 0
    /\ wasted = 0
    /\ hooks = [w \in Workers |-> 0]
    /\ start_hook = FALSE
    /\ access = "random"
    /\ NoLoader
    /\ NoCache
    /\ NoView
    /\ NoSeq
    /\ NoQueue

\* What the steps of the parent leave alone
shmFrame == <<configVars, cleanupVars, rx_open, countVars, hookVars,
              loaderVars, cacheVars, viewVars, seqVars, queueVars, submits>>

\* SHMProcessBacked.wait_completion, lines 260-282: the header read from a
\* pipe and result_buffers.pop(idx); e is the buffer popped.
shm_wait_completion(r, e) ==
    /\ wait_completion(r)
    /\ r[2].idx \in Items(result_buffers)
    /\ e = Buffer(result_buffers, r[2].idx)
    /\ result_buffers' = result_buffers \ {e}

\* lines 460-461 over the shared-memory backend: the value returned is not
\* kept, and the buffer of a failed job is dropped at line 281.
ShmDrainStep ==
    /\ pc = "drain"
    /\ drainLeft > 0
    /\ \E r \in Returnable : \E e \in result_buffers :
          /\ shm_wait_completion(r, e)
          /\ buffer_queue' = callback(buffer_queue, <<e>>)
    /\ drainLeft' = drainLeft - 1
    /\ wasted' = wasted + 1
    /\ UNCHANGED <<shmFrame, handles, tosubmit, jobs, completed, pc, item,
                   passthrough, last, access, yielded, reported>>

\* lines 463-465: completed.clear() drops the buffered values, then the
\* ring is reassigned
ShmResubmit ==
    /\ pc = "drain"
    /\ drainLeft <= 0
    /\ completed' = {}
    /\ \E o \in Orders(Values(completed)) :
          buffer_queue' = callback(buffer_queue, o)
    /\ jobs' = Rescheduled(item, Len(jobs))
    /\ tosubmit' = Rescheduled(item, Len(jobs))
    /\ pc' = "submit"
    /\ wasted' = wasted + Cardinality(completed)
    /\ UNCHANGED <<shmFrame, backendVars, result_buffers, handles, item,
                   drainLeft, passthrough, last, access, yielded, reported>>

\* SHMProcessBacked.submit_job(i), lines 250-258, when fetch (181-195)
\* finds a slot: the buffer that result_buffers held for i is dropped.
submit_job(i) ==
    /\ buffer_queue # <<>>
    /\ LET s == Head(buffer_queue)
           old == {e \in result_buffers : e.item = i}
       IN  /\ result_buffers' =
                  (result_buffers \ old) \cup {[item |-> i, slot |-> s]}
           /\ \E o \in Orders(old) :
                  buffer_queue' = callback(Tail(buffer_queue), o)
           /\ job_queue' = Append(job_queue, SlotJob(i, s))
    /\ UNCHANGED <<wstate, wjob, done_queue, pipes, worker_died>>

\* fetch raises MemoryError (line 193) and submit_job passes it on (256):
\* the get ends with it.
submit_job_raises ==
    /\ buffer_queue = <<>>
    /\ pc' = "idle"
    /\ last' = [last EXCEPT !.item = item, !.outcome = "MemoryError",
                            !.mode = passthrough]
    /\ tosubmit' = <<>>
    /\ UNCHANGED <<backendVars, buffer_queue, result_buffers>>

\* lines 466-467: one turn of the loop that submits the new ring
ShmSubmit ==
    /\ pc = "submit"
    /\ tosubmit # <<>>
    /\ \/ /\ submit_job(Head(tosubmit))
          /\ tosubmit' = Tail(tosubmit)
          /\ pc' = IF Tail(tosubmit) = <<>> THEN "wait" ELSE "submit"
          /\ UNCHANGED last
       \/ submit_job_raises
    /\ UNCHANGED wasted
    /\ UNCHANGED <<shmFrame, handles, jobs, completed, item, drainLeft,
                   passthrough, access, yielded, reported>>

\* The values an assignment to completed[idx] drops
Replaced(c, i) == {e \in Values(c) : e.idx = i}

\* lines 470-472 over the shared-memory backend: the result is buffered,
\* a value with the buffer it is made of, an error without.
ShmWaitStep ==
    /\ pc = "wait"
    /\ item \notin Keys(completed)
    /\ \E r \in Returnable : \E e \in result_buffers :
          /\ shm_wait_completion(r, e)
          /\ \E o \in Orders(Replaced(completed, r[2].idx)) :
                buffer_queue' =
                    IF r[2].success
                        THEN callback(buffer_queue, o)
                        ELSE callback(callback(buffer_queue, <<e>>), o)
          /\ completed' =
                Store(completed,
                      Buffered(r[2], IF r[2].success THEN e.slot ELSE -1))
    /\ UNCHANGED wasted
    /\ UNCHANGED <<shmFrame, handles, tosubmit, jobs, pc, item, drainLeft,
                   passthrough, last, access, yielded, reported>>

\* lines 474-475 over the shared-memory backend
ShmRefill ==
    /\ pc = "wait"
    /\ item \in Keys(completed)
    /\ \/ /\ submit_job(item + Len(jobs))
          /\ jobs' = Append(jobs, item + Len(jobs))
          /\ pc' = "return"
          /\ UNCHANGED <<last, tosubmit>>
       \/ /\ submit_job_raises
          /\ UNCHANGED jobs
    /\ UNCHANGED wasted
    /\ UNCHANGED <<shmFrame, handles, completed, item, drainLeft,
                   passthrough, access, yielded, reported>>

\* lines 478-483 over the shared-memory backend: the value handed to the
\* caller keeps its buffer
ShmReturn ==
    /\ pc = "return"
    /\ jobs' = Tail(jobs)
    /\ completed' = Popped(completed, item)
    /\ pc' = "idle"
    /\ LET e == Entry(completed, item)
           err == reraise_err(e.error, passthrough)
       IN  IF e.success
              THEN /\ last' = [last EXCEPT !.item = item,
                                  !.outcome = "value", !.value = e.value,
                                  !.mode = passthrough, !.stale = e.stale]
                   /\ handles' = [handles EXCEPT ![e.slot] = @ + 1]
                   /\ UNCHANGED <<passthrough, reported>>
              ELSE /\ last' = [last EXCEPT !.item = item,
                                  !.outcome = err.outcome, !.cause = err.cause,
                                  !.text = err.text, !.mode = passthrough,
                                  !.stale = e.stale]
                   /\ passthrough' = err.passthrough
                   /\ reported' = reported \cup {item}
                   /\ UNCHANGED handles
    /\ UNCHANGED wasted
    /\ UNCHANGED <<shmFrame, backendVars, buffer_queue, result_buffers,
                   tosubmit, item, drainLeft, access, yielded>>

\* The caller deletes its last reference to a value it was handed
\* (prefetch, lines 518-521)
DropValue(s) ==
    /\ handles[s] > 0
    /\ handles' = [handles EXCEPT ![s] = @ - 1]
    /\ buffer_queue' = callback(buffer_queue, <<[slot |-> s]>>)
    /\ UNCHANGED wasted
    /\ UNCHANGED <<shmFrame, backendVars, result_buffers, tosubmit, jobs,
                   completed, pc, item, drainLeft, passthrough, last, access,
                   yielded, reported>>

NextShm ==
    \/ \E w \in Workers : TakeJob(w)
    \/ \E w \in Workers : Finish(w)
    \/ \E i \in 0..(SeqLen - 1) : Get(i)
    \/ ShmDrainStep
    \/ ShmResubmit
    \/ ShmSubmit
    \/ ShmWaitStep
    \/ ShmRefill
    \/ ShmReturn
    \/ \E s \in Slots : DropValue(s)

SpecShm == InitShm /\ [][NextShm]_vars

\* ----------------------------------------------------------------- Next
Next ==
    \/ \E w \in Workers : TakeJob(w)
    \/ \E w \in Workers : Finish(w)
    \/ \E w \in Workers : Kill(w)
    \/ monitor_workers
    \/ \E ev \in {"wrap", "passthrough"} : SetErr(ev)
    \/ \E i \in 0..(SeqLen - 1) : Get(i)
    \/ DrainStep
    \/ DrainRaise
    \/ Resubmit
    \/ WaitStep
    \/ WaitRaise
    \/ Refill
    \/ Return

Spec == Init /\ [][Next]_vars

SpecSend == InitSend /\ [][Next]_vars

\* The steps of the consumer inside __getitem__
ConsumerStep ==
    DrainStep \/ DrainRaise \/ Resubmit \/ WaitStep \/ WaitRaise
        \/ Refill \/ Return

\* Every worker stays alive: no worker is killed.  (The error mode does
\* not decide whether a get ends: it stays as __init__ left it.)
NextAlive ==
    \/ \E w \in Workers : TakeJob(w)
    \/ \E w \in Workers : Finish(w)
    \/ \E i \in 0..(SeqLen - 1) : Get(i)
    \/ DrainStep
    \/ Resubmit
    \/ WaitStep
    \/ Refill
    \/ Return

\* Workers that are scheduled fairly and evaluations that terminate: an
\* idle worker takes a queued job, a busy one posts its completion; the
\* consumer thread runs when it is not blocked.
Fairness ==
    /\ WF_vars(\E w \in Workers : TakeJob(w))
    /\ \A w \in Workers : WF_vars(Finish(w))
    /\ WF_vars(ConsumerStep)

FairAlive == Init /\ [][NextAlive]_vars /\ Fairness

\* The scripted run: the caller requests the items of Script one after the
\* other and every worker stays alive.
NextScript ==
    \/ \E w \in Workers : TakeJob(w)
    \/ \E w \in Workers : Finish(w)
    \/ \E i \in Requests : Get(i)
    \/ DrainStep
    \/ Resubmit
    \/ WaitStep
    \/ Refill
    \/ Return

SpecScript == InitScript /\ [][NextScript]_vars

\* Workers may be killed; the live ones run fairly and the consumer keeps
\* requesting items.
NextDeath ==
    \/ \E w \in Workers : TakeJob(w)
    \/ \E w \in Workers : Finish(w)
    \/ \E w \in Workers : Kill(w)
    \/ monitor_workers
    \/ \E i \in 0..(SeqLen - 1) : Get(i)
    \/ DrainStep
    \/ DrainRaise
    \/ Resubmit
    \/ WaitStep
    \/ WaitRaise
    \/ Refill
    \/ Return

\* The process-based backends
InitDeath == Init /\ method # "thread"

FairDeath ==
    /\ InitDeath
    /\ [][NextDeath]_vars
    /\ Fairness
    /\ WF_vars(\E i \in 0..(SeqLen - 1) : Get(i))

\* The prefetcher is used, then dropped; no worker is killed.
NextCleanup ==
    \/ \E w \in Workers : TakeJob(w)
    \/ \E w \in Workers : Finish(w)
    \/ \E i \in 0..(SeqLen - 1) : Get(i)
    \/ DrainStep
    \/ Resubmit
    \/ WaitStep
    \/ Refill
    \/ Return
    \/ Drop
    \/ Join
    \/ CleanupEnds

\* Workers and consumer run fairly, and so does the thread that runs cleanup.
FairCleanup ==
    /\ Init
    /\ [][NextCleanup]_vars
    /\ Fairness
    /\ WF_vars(Join \/ CleanupEnds)

\* The parent may die without shutting down.
NextOrphan ==
    \/ \E w \in Workers : TakeJob(w)
    \/ \E w \in Workers : Finish(w)
    \/ \E i \in 0..(SeqLen - 1) : Get(i)
    \/ DrainStep
    \/ Resubmit
    \/ WaitStep
    \/ Refill
    \/ Return
    \/ ParentDies
    \/ \E w \in Workers : OrphanExit(w)
    \/ \E w \in Workers : SendBroken(w)

\* The orphaned workers keep running: each takes the queued jobs, sends or
\* fails to send, and its job_queue.get times out on an empty queue.
FairOrphan ==
    /\ InitDeath
    /\ [][NextOrphan]_vars
    /\ Fairness
    /\ \A w \in Workers : WF_vars(OrphanExit(w))
    /\ \A w \in Workers : WF_vars(SendBroken(w))

\* The workers start while the consumer already requests items.
NextStart ==
    \/ \E w \in Workers : RunHook(w)
    \/ \E w \in Workers : TakeJob(w)
    \/ \E w \in Workers : Finish(w)
    \/ \E i \in 0..(SeqLen - 1) : Get(i)
    \/ DrainStep
    \/ Resubmit
    \/ WaitStep
    \/ Refill
    \/ Return

SpecStart == InitStart /\ [][NextStart]_vars

\* The workers start and run jobs while the consumer and the code run by
\* the workers set their error modes.
NextMode ==
    \/ \E w \in Workers : RunHook(w)
    \/ \E w \in Workers : TakeJob(w)
    \/ \E w \in Workers : Finish(w)
    \/ \E w \in Workers : \E ev \in {"wrap", "passthrough"} : WorkerSetErr(w, ev)
    \/ \E ev \in {"wrap", "passthrough"} : SetErr(ev)
    \/ \E i \in 0..(SeqLen - 1) : Get(i)
    \/ DrainStep
    \/ Resubmit
    \/ WaitStep
    \/ Refill
    \/ Return

SpecMode == InitStart /\ [][NextMode]_vars

\* Gets with any integer index: a negative job is a sentinel to the worker
\* that takes it (lines 116, 306, 399).
NextIndex ==
    \/ \E w \in Workers : TakeJob(w)
    \/ \E w \in Workers : Finish(w)
    \/ monitor_workers
    \/ \E i \in (-(SeqLen + 1))..SeqLen : Get(i)
    \/ DrainStep
    \/ DrainRaise
    \/ Resubmit
    \/ WaitStep
    \/ WaitRaise
    \/ Refill
    \/ Return

SpecIndex == InitIndex /\ [][NextIndex]_vars

\* A prefetcher over an infinite view, its workers running fairly, the
\* consumer iterating or requesting items for ever.
FairInfinite ==
    /\ InitInfinite
    /\ [][NextAlive]_vars
    /\ Fairness
    /\ WF_vars(\E i \in 0..(SeqLen - 1) : Get(i))

\* ============================================================== claims
Finished == last.outcome \in {"value", "EvaluationError", "original"}
Raised == last.outcome \in {"EvaluationError", "original"}
AnyGone == \E w \in Workers : Gone(w)

\* Jobs between their submission and the hand-over (or the drop) of their
\* result: queued, held by a worker, posted and unread, or buffered.
Outstanding ==
    Len(job_queue)
    + Cardinality({w \in Workers : wjob[w] # NoJob})
    + Len(done_queue)
    + Cardinality({<<w, k>> \in Workers \X (1..(MaxBuffered + 1)) :
                      k <= Len(pipes[w])})
    + Cardinality(completed)

C2_IterOrder ==
    /\ \A k \in 1..Len(yielded) : yielded[k] = Val(k - 1)
    /\ Len(yielded) <= size
    /\ access = "aborted" => (failing # {} \/ AnyGone)

\* C2 witness: during an iteration with max_buffered > len(s), the result
\* of item + 1 is buffered while the requested item has not arrived.
C2_Witness ==
    /\ access = "iter"
    /\ buffer_size > size
    /\ pc = "wait"
    /\ item \notin Keys(completed)
    /\ (item + 1) \in Keys(completed)

C4_GetEnds == (pc # "idle") ~> (pc = "idle")

\* C4 witness: a get that had to drain in-flight jobs has returned
C4_Witness ==
    /\ pc = "idle"
    /\ last.jump
    /\ Finished
    /\ ~AnyGone

\* The elements of a sequence
Elems(q) == {q[k] : k \in 1..Len(q)}

\* C5 (state after an evaluation error): an evaluation error is reported
\* only for an index whose source element fails; once one was reported,
\* the ring is still whole between gets (as many jobs outstanding as the
\* ring holds, every buffered result belonging to it) and every later get
\* of an index that evaluates successfully returns its value.
C5_AfterError ==
    /\ Raised => last.item \in failing
    /\ reported \subseteq failing
    /\ (reported # {} /\ Finished /\ last.item \notin failing)
          => (last.outcome = "value" /\ last.value = Val(last.item)
              /\ ~last.stale)
    /\ (reported # {} /\ pc = "idle" /\ ~AnyGone)
          => /\ Len(jobs) = buffer_size
             /\ Outstanding = buffer_size
             /\ Keys(completed) \subseteq Elems(jobs)

\* C5 witness: after get(k) raised, a non-monotonic get of another index
\* returned its value
C5_Witness ==
    /\ last.outcome = "value"
    /\ last.jump
    /\ \E k \in reported : k # last.item

\* The error raised in the worker reached the consumer as an exception.
Transported == method = "thread" \/ picklable_err

\* C6 (wrap mode): when the consumer's mode is 'wrap', a get of a failing
\* item raises EvaluationError, for every backend; its cause is the original
\* error when that was transported, else its message carries a string.
C6_WrapMode ==
    (Raised /\ ~last.mode)
        => /\ last.outcome = "EvaluationError"
           /\ Transported => last.cause = "exc"
           /\ ~Transported => (last.cause = "none" /\ last.text # "none")

\* C6 witness: a process-based worker failed, the consumer in wrap mode got
\* EvaluationError with the original error as its cause
C6_Witness ==
    /\ Raised
    /\ ~last.mode
    /\ method = "sharedmem"
    /\ last.cause = "exc"

\* C7 as stated (passthrough mode): with the mode set to 'passthrough', a
\* get of a failing item whose error was transported raises that error
\* itself.
C7_Passthrough ==
    (Raised /\ last.mode /\ last.cause = "exc") => last.outcome = "original"

\* C8 as stated (unpicklable error): a process-based worker that cannot send
\* the original error posts a failure carrying the string form of the cause,
\* and the get raises EvaluationError in both modes.
C8_StringOfCause ==
    (Raised /\ method # "thread" /\ ~picklable_err)
        => (last.outcome = "EvaluationError" /\ last.text = "str_cause")

\* The consumer is at a wait_completion call.
Waiting ==
    \/ pc = "drain" /\ drainLeft > 0
    \/ pc = "wait" /\ item \notin Keys(completed)

C11_CleanupReturns ==
    (cleanup = "join")
        ~> (cleanup = "done" /\ \A w \in Started : wstate[w] = "exited")

\* C12 as stated (orphaned workers): if the parent process dies without
\* shutting down, every worker of the process backends eventually exits,
\* whether it is idle on an empty job queue or still has queued jobs.
C12_OrphansExit == (pc = "dead") ~> (\A w \in Started : Gone(w))

\* C13 as stated (worker count): prefetch starts exactly nworkers workers
\* when nworkers > 0, and max(1, cpu_count - |nworkers|) when nworkers <= 0.
C13_WorkerCount ==
    started # -1
        => started = (IF nworkers > 0 THEN nworkers
                      ELSE IF cpu_count - Abs(nworkers) > 1
                          THEN cpu_count - Abs(nworkers)
                      ELSE 1)

\* C14 (start hook): when start_hook is given, every worker runs it exactly
\* once, after it starts and before it takes its first job, for every
\* backend: a worker that holds or has finished a job has run it once, one
\* that has not run it holds no job, and a worker that takes a job has run
\* it.
C14_HookFirst ==
    start_hook =>
        \A w \in Started :
            /\ hooks[w] <= 1
            /\ wstate[w] # "starting" => hooks[w] = 1
            /\ wstate[w] = "starting" => (hooks[w] = 0 /\ wjob[w] = NoJob)
            /\ wjob[w] # NoJob => hooks[w] = 1

\* C14 witness: a worker that ran the hook holds a job while another one
\* has not run yet
C14_Witness ==
    /\ start_hook
    /\ \E w \in Started : wstate[w] = "busy" /\ hooks[w] = 1
    /\ \E w \in Started : wstate[w] = "starting"

\* C15 as stated (index range): get(i) with -n <= i < 0 returns s[n + i],
\* get(i) with i outside [-n, n) fails with an index error, and in neither
\* case does a worker terminate.
C15_IndexRange ==
    /\ \A w \in Started : wstate[w] # "exited"
    /\ (pc = "idle" /\ last.outcome # "none" /\ last.item < 0
            /\ last.item >= -size /\ (size + last.item) \notin failing)
          => (last.outcome = "value" /\ last.value = Val(size + last.item))
    /\ (pc = "idle" /\ last.outcome # "none"
            /\ (last.item < -size \/ last.item >= size))
          => (Raised /\ last.cause = "exc")

\* C16 as stated (infinite views): iterating a prefetch wrapper built over an
\* infinite view yields get(0), get(1), ... without bound: for every k the
\* k-th value is eventually produced and equals the source's k-th element.
C16_IterUnbounded ==
    \A k \in 1..SeqLen :
        (infinite /\ access = "iter")
            ~> (Len(yielded) >= k /\ yielded[k] = Val(0))

\* Jobs that target slot s: queued, executing, or completed and undelivered
JobsOn(s) ==
    Cardinality({k \in 1..Len(bl_job_queue) : bl_job_queue[k] = s})
    + Cardinality({p \in Pids : bl_slot[p] = s})
    + Cardinality({k \in 1..Len(bl_done_queue) : bl_done_queue[k][1] = s})

\* C17 (returned slot is stable): the slot returned by next() is not written
\* by any worker from the moment it is returned until the following next()
\* call: no worker has written it and no job targets it.
C17_HeldNotWritten ==
    /\ ~clobbered
    /\ held >= 0 => JobsOn(held) = 0

\* C17 witness: the consumer holds a slot while a worker fills another one
C17_Witness ==
    /\ held >= 0
    /\ \E p \in Pids : bl_workers[p] = "busy" /\ bl_slot[p] # held

\* C18 (one job per slot): every slot is targeted by at most one job that
\* is queued, executing or completed and undelivered, and the slot that
\* next() queues is targeted by no job: its result was handed over.
C18_OneJobPerSlot ==
    /\ \A s \in 0..(max_cached - 1) : JobsOn(s) <= 1
    /\ bl_pc = "out" => JobsOn(next_in_queue) = 0

\* C18 witness: every slot but the consumer's is targeted by a job, one of
\* them queued a second time
C18_Witness ==
    /\ bl_pc = "out"
    /\ held >= 0
    /\ max_cached > 1
    /\ \A s \in 0..(max_cached - 1) : s # held => JobsOn(s) = 1
    /\ bl_job_queue # <<>>

\* Sleep notices of worker p in done_queue
Notices(p) ==
    Cardinality({k \in 1..Len(bl_done_queue) : bl_done_queue[k][1] = -p - 1})

\* C19 (sleeping workers): a next() entered after some or all workers went
\* to sleep returns or raises; a sleeping worker p has posted exactly one
\* completion with slot -p - 1; reading it, next() restarts worker p and no
\* other; a negative slot is never returned.
C19_WakeAndReturn ==
    /\ (bl_pc = "waiting") ~> (bl_pc = "out")
    /\ [](\A p \in Pids :
             Notices(p) = (IF bl_workers[p] = "asleep" THEN 1 ELSE 0))
    /\ [][\A p \in Pids :
             (bl_workers[p] = "asleep" /\ bl_workers'[p] # "asleep")
                 => (Head(bl_done_queue)[1] = -p - 1
                     /\ \A q \in Pids \ {p} : bl_workers'[q] = bl_workers[q])]_vars
    /\ [](held >= -1 /\ next_in_queue >= 0)

\* C19 witness: a next() that had to restart a worker returned a slot
C19_Witness ==
    /\ bl_pc = "out"
    /\ woke
    /\ held >= 0

\* C20 as stated (LRU cache): when a get misses while the cache holds
\* cache_size entries, the entry evicted is the least recently accessed
\* one, a cache hit counting as an access.
C20_EvictsLRU == evicted = lru

\* C21 as stated: a cache that starts empty with cache_size >= 1 never holds
\* more than cache_size entries, whatever gets and sets the threads make,
\* and a step of an iteration over the view leaves the cache as it is.
C21_CacheBounded ==
    /\ [](Len(cache) <= cache_size)
    /\ [][\A t \in Threads :
             (tpc[t] = "idle" /\ tpc'[t] = "yield")
                 => (cache' = cache /\ cvalue' = cvalue)]_vars

\* C21 witness: the cache is full after a miss that evicted an entry, a
\* second thread waits for the lock and a set has changed the source
C21_Witness ==
    /\ Len(cache) = cache_size
    /\ \E t \in Threads : tpc[t] = "got" /\ lock = t
    /\ \E t \in Threads : tpc[t] \in {"get", "set"}
    /\ \E k \in ViewKeys : cvalue[k] = -1 /\ source[k] # Val(k)

\* C22 as stated: a get through the view, by an integer key or as an
\* element of a slice of the view, returns the element that the same
\* request names in the underlying sequence, as it is now.
C22_ViewEqualsSource ==
    \A t \in Threads :
        tpc[t] = "got" => (texp[t] >= 0 /\ ret[t] = source[texp[t]])

\* C24 as stated: SeqSlice(arr, slice(start, stop, step)) has the length
\* of arr[start:stop:step] and lists its elements, by iteration and by
\* indexing, for every length of arr and every slice with step # 0.
C24_SliceAsList ==
    stage = "slice"
        => /\ out.len = Len(ListSlice(lens[1], args[1]))
           /\ out.iter = ListSlice(lens[1], args[1])
           /\ out.index = ListSlice(lens[1], args[1])

\* The positions of s that s[a][b] lists under list slicing
TwiceSliced(n, a, b) ==
    LET l == ListSlice(n, a)
        k == ListSlice(Len(l), b)
    IN  [j \in 1..Len(k) |-> l[k[j] + 1]]

\* C25 as stated: SeqSlice(s, a)[b] is a slice view over s itself and its
\* elements are those of s[a][b] under list slicing.
C25_SliceFlattens ==
    stage = "subslice"
        => /\ view.base = "sequence"
           /\ out.iter = TwiceSliced(lens[1], args[1], args[2])
           /\ out.index = TwiceSliced(lens[1], args[1], args[2])

\* C23 as stated: under every interleaving of puts and gets of several
\* processes the gets return the items in the order their puts took
\* effect, each item once; an item that is not read yet stays in its slot;
\* and the queue never stores more than maxsize items.
C23_BoundedFifo ==
    /\ Len(get_log) <= Len(put_log)
    /\ \A k \in 1..Len(get_log) : get_log[k] = put_log[k]
    /\ \A k \in (Len(get_log) + 1)..Len(put_log) :
          q_values[(k - 1) % q_maxsize] = put_log[k]
    /\ q_stop - q_start <= q_maxsize
    /\ Len(put_log) - Len(get_log) <= q_maxsize

\* C23 witness: the queue has wrapped around; one process writes the slot
\* that was read first while another reads the following slot
C23_Witness ==
    /\ q_maxsize = MaxSize
    /\ Len(get_log) >= 1
    /\ q_stop >= q_maxsize
    /\ \E p \in Procs : qpc[p] = "put_write"
    /\ \E p \in Procs : qpc[p] = "get_read"

\* The length of the shortest of the sequences
Shortest(ls) ==
    CHOOSE n \in {ls[s] : s \in 1..Len(ls)} : \A s \in 1..Len(ls) : n <= ls[s]

\* C28 as stated: len(smap(f, s0, s1, ...)) is the length of the shortest
\* sequence, iteration yields that many items, and get(i) for i below that
\* length returns f(s0[i], s1[i], ...), the i-th item of the iteration.
C28_MapLength ==
    stage \in {"smap", "get"}
        => /\ out.len = Shortest(lens)
           /\ Len(out.iter) = out.len
           /\ (stage = "get" /\ args[1] >= 0 /\ args[1] < Shortest(lens))
                 => (out.get = Applied(args[1])
                     /\ out.get = out.iter[args[1] + 1])

\* The elements of the sequences, as <<sequence, position>>
Pairs(ls) ==
    {e \in (0..(Len(ls) - 1)) \X (0..(MaxLen - 1)) : e[2] < ls[e[1] + 1]}

\* Round-robin order: by position, then by sequence; a sequence that has
\* no element at a position has dropped out
RoundRobin(ls) ==
    [r \in 1..Cardinality(Pairs(ls)) |->
        CHOOSE e \in Pairs(ls) :
            Cardinality({x \in Pairs(ls) :
                x[2] < e[2] \/ (x[2] = e[2] /\ x[1] < e[1])}) = r - 1]

\* C29 as stated: len(interleave(...)) is the sum of the lengths, and
\* indexing and iteration both give the round-robin order, empty
\* sequences and equal lengths included.
C29_Interleave ==
    stage \in {"interleave", "get"}
        => /\ out.len = Cardinality(Pairs(lens))
           /\ out.iter = RoundRobin(lens)
           /\ out.index = RoundRobin(lens)
           /\ (stage = "get" /\ args[1] >= 0 /\ args[1] < out.len)
                 => out.get = RoundRobin(lens)[args[1] + 1]

\* C29 witness: three sequences, one empty and two of the same length,
\* and an element past the first round was read
C29_Witness ==
    /\ stage = "get"
    /\ Len(lens) = 3
    /\ \E s \in 1..3 : lens[s] = 0
    /\ \E s, t \in 1..3 : s # t /\ lens[s] = lens[t] /\ lens[s] >= 2
    /\ args[1] >= 2
    /\ out.get[2] >= 1

\* seq[j * k : (j + 1) * k] under list slicing
Group(n, k, j) ==
    ListSlice(n, [start |-> Some(j * k), stop |-> Some((j + 1) * k),
                  step |-> None])

\* C30 as stated: with a pad value and drop_last false every batch has k
\* elements, the group seq[j*k:(j+1)*k] followed by pad values only when
\* the group is short; with drop_last true the pad value is ignored.
C30_BatchPad ==
    (stage \in {"batch", "get"} /\ args.pad # None)
        => \A j \in 1..Len(out.iter) :
              LET g == Group(lens[1], args.k, j - 1)
              IN  IF args.drop_last
                     THEN out.iter[j] = g
                     ELSE out.iter[j] =
                            g \o [i \in 1..(args.k - Len(g)) |-> Pad]

\* C26: in the scripted run over 300 items with ring size m = max_buffered,
\* the requests 0, 50, 50, 7, 7, 7, 200 return f(0), f(50), f(50), f(7),
\* f(7), f(7), f(200), and at most 3 * m jobs are submitted to the workers
\* in total.
C26_ScriptCost ==
    /\ \A k \in 1..Len(yielded) : yielded[k] = Val(Script[k])
    /\ submits <= 3 * max_buffered

\* C26, amended: the values are those of the requests, and each request
\* after the first reschedules the whole ring: the constructor submits
\* buffer_size jobs, every get one more, every get but the first
\* buffer_size more, which makes 7 * buffer_size + 7 jobs at the end.
C26_ScriptCostAmended ==
    /\ \A k \in 1..Len(yielded) : yielded[k] = Val(Script[k])
    /\ submits <= (Len(Script)) * (buffer_size + 1)
    /\ (Len(yielded) = Len(Script)) =>
           submits = Len(Script) * (buffer_size + 1)

C26_Witness ==
    /\ access = "script"
    /\ pc = "idle"
    /\ Len(yielded) = Len(Script)
    /\ submits = Len(Script) * (buffer_size + 1)
    /\ submits > 3 * max_buffered

\* Where slot s is: the free queue, a buffer kept for an outstanding job, a
\* buffered value, a value the caller holds
Free(s) == Count(buffer_queue, s)
Holders(s) ==
    Cardinality({e \in result_buffers : e.slot = s})
        + Cardinality({e \in Values(completed) : e.slot = s})
        + handles[s]

\* The jobs the workers have yet to finish
Pending ==
    {job_queue[k] : k \in 1..Len(job_queue)}
        \cup {wjob[w] : w \in {v \in Workers : wstate[v] = "busy"}}

\* The completions the parent has yet to read
Unread == UNION {{pipes[w][k] : k \in 1..Len(pipes[w])} : w \in Workers}

\* C27: with shared-memory transport a slot taken from the free queue for
\* a job returns to it exactly once, when the caller drops the value made
\* of it, when its job failed, or when its result is discarded after a
\* non-monotonic request: a slot is never twice in the free queue and
\* never both free and assigned to a job.
C27_SlotsOnce ==
    /\ [](\A s \in Arena :
            /\ Free(s) <= 1
            /\ Free(s) + Holders(s) = 1
            /\ \A j \in Pending :
                  j.slot = s => /\ Free(s) = 0
                                /\ [item |-> j.idx, slot |-> s]
                                       \in result_buffers)
    /\ [](\A c \in Unread : c.idx \in Items(result_buffers))
    /\ [][\A s \in Arena :
            Free(s)' > Free(s) =>
                /\ Free(s) = 0
                /\ Holders(s) = 1
                /\ Free(s)' = 1
                /\ Holders(s)' = 0
                /\ \/ handles'[s] = handles[s] - 1
                   \/ pc = "drain"
                   \/ /\ pc = "wait"
                      /\ \E e \in result_buffers :
                            /\ e.slot = s
                            /\ \E c \in completed' :
                                  c.idx = e.item /\ ~c.success]_vars

\* A slot the constructor took is free again, a failed job has been
\* reported, the last request was not the next one and the caller holds
\* a value.
C27_Witness ==
    /\ method = "sharedmem"
    /\ tosubmit = <<>>
    /\ pc = "idle"
    /\ last.jump
    /\ reported # {}
    /\ Free(0) = 1
    /\ \E s \in Arena : handles[s] = 1
    /\ Len(buffer_queue) + Cardinality(result_buffers) < max_buffered

\* C40: reporting an evaluation failure only reads the error mode: the
\* mode of the calling thread is the same after a get that raised for a
\* failing item as before it, so passthrough stays passthrough.
C40_ModeKept ==
    [][(pc = "return" /\ pc' = "idle") => passthrough' = passthrough]_vars

\* C37: the error mode is per thread: when a worker sets its mode, at its
\* start or through seterr, the mode of the consumer and of every other
\* worker stays as it was, and the consumer's seterr or failed get changes
\* the mode of no worker.
C37_ModePerThread ==
    [][/\ \A w \in Workers :
             wmode'[w] # wmode[w] =>
                 /\ wstate[w] \in {"starting", "busy"}
                 /\ passthrough' = passthrough
                 /\ \A v \in Workers \ {w} : wmode'[v] = wmode[v]
       /\ passthrough' # passthrough =>
             /\ pc \in {"idle", "return"}
             /\ wmode' = wmode]_vars

\* The consumer has set passthrough, one worker keeps the passthrough mode
\* of its start and another, running a job, has set wrap.
C37_Witness ==
    /\ passthrough
    /\ \E w, v \in Started :
          /\ wmode[w]
          /\ wstate[w] = "idle"
          /\ ~wmode[v]
          /\ wstate[v] = "busy"

\* C33: a request for an index that is not the one expected next discards
\* at most max_buffered evaluations that were already submitted, the
\* results it reads and drops and the buffered ones it forgets together.
C33_WastedWork == wasted <= max_buffered

\* A request that was not the expected one has discarded max_buffered
\* results, two or more, and a worker runs a job of the new ring.
C33_Witness ==
    /\ pc = "wait"
    /\ last.jump
    /\ drainLeft = 0
    /\ wasted = Len(jobs)
    /\ wasted = max_buffered
    /\ wasted >= 2
    /\ \E w \in Workers : wjob[w].stale = FALSE /\ wstate[w] = "busy"

\* The submitted jobs whose completion the scheduler has not received:
\* queued, held by a worker, or posted and unread
Unreceived == Outstanding - Cardinality(completed)

SubmittedIndices ==
    Elems(jobs)
    \cup {job_queue[k].idx : k \in 1..Len(job_queue)}
    \cup {wjob[w].idx : w \in {x \in Workers : wjob[x] # NoJob}}

\* C39: every item index the scheduler submits to the backend lies in
\* [0, len(s)), at construction, on a refill and on a jump.
C39_InRangeAsStated ==
    ~infinite => SubmittedIndices \subseteq 0..(size - 1)

\* C39, amended: with requests in [0, len(s)) every submitted index lies in
\* [0, len(s) + buffer_size): the scheduler runs at most buffer_size indices
\* ahead of the last requested one and never submits a negative index.
C39_InRange ==
    ~infinite => SubmittedIndices \subseteq 0..(size + buffer_size - 1)

\* A worker evaluates an index past the end of the source after a request
\* out of order.
C39_Witness ==
    /\ ~infinite
    /\ last.jump
    /\ \E w \in Workers : wjob[w] # NoJob /\ wjob[w].idx >= size

\* C34: with shared-memory transport, a get of an item whose value could not
\* be packed into its slot still returns the value: the worker sends it
\* serialized through its pipe instead.
C34_PackFallback ==
    (Finished /\ method = "sharedmem" /\ last.item \notin failing)
        => (last.outcome = "value" /\ last.value = Val(last.item))

\* The completions posted and not yet read
PostedCount ==
    Len(done_queue)
    + Cardinality({<<w, k>> \in Workers \X (1..(MaxBuffered + 1)) :
                      k <= Len(pipes[w])})

\* Worker w gives up the job it holds and posts one completion for it
PostsOne(w) ==
    /\ PostedCount' = PostedCount + 1
    /\ IF method = "thread"
          THEN /\ Len(done_queue') = Len(done_queue) + 1
               /\ done_queue'[Len(done_queue')].idx = wjob[w].idx
          ELSE /\ Len(pipes'[w]) = Len(pipes[w]) + 1
               /\ pipes'[w][Len(pipes'[w])].idx = wjob[w].idx

\* C36: a job produces at most one completion, and exactly one while the
\* worker that took it stays alive, also when the value cannot be sent and
\* the worker reports a failure instead: a worker that gives up a job posts
\* exactly one completion, of that job; completions appear in no other way
\* and wait_completion takes them out one at a time.
C36_OneCompletion ==
    [][/\ \A w \in Workers :
             (wjob[w] # NoJob /\ wjob'[w] = NoJob) => PostsOne(w)
       /\ PostedCount' > PostedCount
             => \E w \in Workers : wjob[w] # NoJob /\ wjob'[w] = NoJob
       /\ PostedCount' >= PostedCount - 1]_vars

\* The consumer has received the failure a worker reported for a value it
\* could not send.
C36_Witness ==
    /\ Finished
    /\ last.item \in unsendable
    /\ last.cause = "ValueError"
    /\ method = "process"

\* C35: on shutdown the jobs still queued are removed before the sentinels
\* are posted: once cleanup has begun the job queue holds sentinels only
\* and no worker starts evaluating an item.
C35_QueueDrained ==
    [][cleanup' # "none"
          => /\ \A k \in 1..Len(job_queue') : job_queue'[k].idx < 0
             /\ \A w \in Workers :
                   ~(wstate[w] = "idle" /\ wstate'[w] = "busy")]_vars

\* range(start, stop, step) of Python for the arguments given to arange
TheRange == PyRange(args[1].start, args[1].stop, args[1].step)

\* C32: arange(start, stop, step) behaves as range(start, stop, step): same
\* length, same iteration, a[i] = r[i] for every i in [-len, len) and an
\* index error outside, and slices that list the same elements.
C32_LikeRange ==
    /\ stage = "arange" => (out.len = Len(TheRange) /\ out.iter = TheRange)
    /\ stage = "item"
          => LET pos == ListItem(Len(TheRange), out.key)
             IN  IF pos = -1 THEN out.error
                 ELSE ~out.error /\ out.value = TheRange[pos + 1]
    /\ stage = "sliced"
          => LET keys == ListSlice(Len(TheRange), out.key)
             IN  out.list = [j \in 1..Len(keys) |-> TheRange[keys[j] + 1]]

====
